---------------------------- MODULE Spec2Model ----------------------------
(***************************************************************************)
(* A model of the dataflow graph builder and execution core of the engine  *)
(* (src/src/engine/dataflow.rs).  The module holds several independent     *)
(* state machines, one per part of the engine, each with its own           *)
(* specification:                                                          *)
(*                                                                         *)
(*   SpecDriver / SpecDriverFair   run_with_new_dataflow_graph: the worker *)
(*                                 loops, the ErrorReporter channel and    *)
(*                                 the driver's select loop and shutdown   *)
(*   SpecSink                      filter_out_errors, output_table and     *)
(*                                 subscribe_table                         *)
(*   SpecStatic                    static_universe / static_column /       *)
(*                                 static_table on N workers               *)
(*   SpecUpdate                    update_rows_table, update_cells_table   *)
(*                                 and concat_tables                       *)
(*   SpecExpr / SpecExprRestart    expression_table_non_deterministic,     *)
(*                                 without and with a restart              *)
(*   SpecIter                      iterate                                 *)
(*   SpecStream                    table_to_stream and stream_to_table     *)
(*   SpecOut                       the output thread of output_table       *)
(*   SpecGroup / SpecSelect        group_by_table and its reducers, over a *)
(*                                 table that changes freely and over one  *)
(*                                 that only grows                         *)
(*   SpecIx                        ix_table                                *)
(*   SpecJoin                      join_tables                             *)
(*   SpecForget                    forget_immediately and                  *)
(*                                 filter_out_results_of_forgetting        *)
(*   SpecSet                       subtract_table, intersect_tables and    *)
(*                                 concat_tables                           *)
(*   SpecLogger / SpecLoggerFair   create_error_logger, set_error_log and  *)
(*                                 the loggers, without and with the       *)
(*                                 driver's fairness                       *)
(*   SpecFlush                     ErrorLogInner: insert and maybe_flush   *)
(*   SpecBuild                     join_tables, group_by_table and the     *)
(*                                 operations of the graph of an iteration *)
(*   SpecDedup                     deduplicate                             *)
(*   SpecMemo                      UniverseData and ColumnData: the forms  *)
(*                                 of the data                             *)
(*   SpecSubscribe                 subscribe_table: the callbacks          *)
(*   SpecLoop                      the worker loop: flushers, pollers,     *)
(*                                 step_or_park                            *)
(*   SpecOt                        output_table on several workers         *)
(*   SpecExprSet                   expression_table_non_deterministic over *)
(*                                 an input that stays a proper set        *)
(*                                                                         *)
(* Every specification leaves the variables of the other parts at their    *)
(* idle values.                                                            *)
(***************************************************************************)
EXTENDS Integers, Sequences, FiniteSets, TLC

VARIABLES
    \* ---- driver (run_with_new_dataflow_graph) ----
    workers,        \* the worker threads timely's execute started (the guards)
    chan,           \* the ErrorReporter channel: a sequence of errors
    failed,         \* the `failed` AtomicBool
    wpc,            \* worker -> position in the worker closure
    werr,           \* worker -> the panic payload caught by catch_unwind
    token,          \* worker -> the thread's unpark token
    dpc,            \* the driver thread's position
    derr,           \* the error the driver broke out of its select loop with
    dsrc,           \* where derr came from: "none", "chan" or "wakeup"
    unparkNext,     \* index of the next guard the driver unparks
    wakeup,         \* the wakeup receiver: "open" or "closed"
    result,         \* what run_with_new_dataflow_graph returned
    firstEnqueued,  \* history: the first error try_send put into the channel
    \* ---- sinks (output_table, subscribe_table) ----
    sinkKind,       \* "output_table" or "subscribe_table"
    skipErrors,     \* SubscribeConfig.skip_errors
    skipPending,    \* SubscribeConfig.skip_pending
    sinkFed,        \* number of input updates the sink's dataflow has taken
    sinkPending,    \* updates of the open time after the filters: row -> diff
    sinkQueue,      \* output_table's mpsc channel of OutputEvents
    sinkWritten,    \* rows the output thread formatted and wrote
    sinkOnData,     \* rows on_data was called with
    sinkLogged,     \* number of ErrorInOutput errors logged
    sinkErrFed,     \* history: number of input rows that held Value::Error
    \* ---- static_universe / static_column / static_table ----
    statKind,       \* which of the three operators is built
    statRows,       \* the rows (keys, values) the operator is given
    statEmit,       \* worker index -> the rows that worker's stream holds
    statDone,       \* worker index -> the worker has built the operator
    \* ---- update_rows_table / update_cells_table / concat_tables ----
    origT,          \* the original table: key -> row -> multiplicity
    updT,           \* the update table: key -> row -> multiplicity
    cellPaths,      \* <<column_paths, update_paths>> of update_cells_table
    rowsOut,        \* update_rows_table's output: key -> row -> multiplicity
    rowsLog,        \* key -> error update_rows_table logged last for the key
    cellsOut,       \* update_cells_table's output: key -> row -> multiplicity
    cellsLog,       \* key -> error update_cells_table logged last for the key
    concatOut,      \* concat_tables' output: key -> row -> multiplicity
    updRemoved,     \* history: the last step deleted a key's only update row
    \* ---- expression_table_non_deterministic ----
    exprMode,       \* "deterministic", "append_only" or "general"
    exprPresent,    \* key -> the input table holds a row with the key
    exprCache,      \* caches[i]: key -> cached result, or NoValue
    exprBatch,      \* what the last batch did: a sequence of row records
    exprEvals,      \* history: key -> number of evaluations for the key
    exprFirst,      \* history: key -> the first result computed for the key
    exprLastIns,    \* history: key -> value emitted with the key's last insertion
    exprError,      \* the error reported by report_and_panic, or "none"
    exprSteps,      \* number of batches processed
    exprRestarted,  \* "no", "replay" (the last batch was a restart's), "resumed"
    \* ---- iterate ----
    itPc,           \* "idle", "running", "done" or "failed"
    itLimit,        \* the limit iterate was called with, or NoLimit
    itInput,        \* the rows of the iterated table in the outer scope
    itVar,          \* updates of the variable: records [round, data, diff]
    itVal,          \* updates of the body's result: records [round, data, diff]
    itRound,        \* the next round of the subscope
    itScopes,       \* number of iteration subscopes created
    itTables,       \* number of tables created in the subscope
    itResult,       \* the rows of the table iterate returned
    itErr,          \* the error iterate returned, or "none"
    \* ---- table_to_stream, stream_to_table ----
    stT,            \* the table T: key -> the row's value, or NoRow
    stTime,         \* the time of the last batch
    stIn,           \* the consolidated changes of T at stTime
    stOut,          \* the rows table_to_stream emitted at stTime, in order
    stBack,         \* stream_to_table's output: key -> value, or NoRow
    \* ---- the output thread of output_table ----
    outRetriable,   \* data_sink.retriable()
    outPersist,     \* worker_persistent_storage.is_some()
    outLog,         \* history: the OutputEvents sent to the channel, in order
    outNext,        \* number of events the thread has received
    outSender,      \* the sender: "open", "final", "dropped" or "panicked"
    outTime,        \* the frontier of the output collection
    outPc,          \* the thread: "recv", "write", "flush", "ok" or "err"
    outRowLog,      \* rows of the current batch: records [attempts, written]
    outWritten,     \* history: the rows written, as pairs <<event, row>>
    outFlushed,     \* history: the batches output_batch returned Ok for
    outFinalized,   \* the finalized times recorded in persistent storage
    outCommits,     \* history: number of commits handled
    outErr,         \* the error the thread sent to the error reporter
    \* ---- group_by_table and its reducers ----
    grpMode,        \* "general" or "append_only": what the input table does
    grpRows,        \* the rows of the group: source key -> value, or NoRow
    grpTime,        \* the time of the last batch
    grpSumState,    \* the accumulated state of the integer sum reducer
    grpOut,         \* reducer -> its output for the group, or NoRow
    grpEmit,        \* what the sum column emitted at grpTime: [value, diff]
    grpFirst,       \* history: the source keys of the first batch of insertions
    grpLast,        \* history: the source keys of the last batch of insertions
    \* ---- ix_table ----
    ixPolicy,       \* the IxKeyPolicy
    ixKeyT,         \* the key table: key -> lookup value, or NoRow
    ixSrc,          \* the keys of the rows of the table that is indexed
    ixOut,          \* the output table: a set of rows [key, values]
    ixLog,          \* the keys KeyMissingInOutputTable was logged for last
    ixErr,          \* the error sent to the error reporter, or "none"
    \* ---- join_tables ----
    joinType,       \* the JoinType
    joinLeft,       \* the left table: key -> value of the join column, or NoRow
    joinRight,      \* the right table: key -> value of the join column, or NoRow
    joinOut,        \* the result table: a set of rows [key, values]
    joinLog,        \* the logged errors about rows now in the tables
    \* ---- forget_immediately, filter_out_results_of_forgetting ----
    fgTime,         \* the least time the next batch of the input can have
    fgIn,           \* the input table: <<row, time>> -> diff
    fgOut,          \* forget_immediately of the input
    fgBack,         \* filter_out_results_of_forgetting of fgOut
    fgErr,          \* "none", or "panic" after the assertion failed
    \* ---- subtract_table, intersect_tables, concat_tables ----
    setA,           \* the table A: <<key, value>> -> number of such rows
    setB,           \* the table B, as far as it is used: key -> number of rows
    setSub,         \* subtract_table(A, B)
    setInt,         \* intersect_tables(A, [B])
    setCat,         \* concat_tables([setSub, setInt])
    \* ---- create_error_logger, set_error_log, ErrorLogger ----
    elTerminate,    \* terminate_on_error
    elInner,        \* the graph is the one of an iteration
    elDefault,      \* default_error_log: a log, or NoLog
    elCurrent,      \* current_error_log: a log, or NoLog
    elOperator,     \* current_operator_properties: "unset", "plain" or "depends"
    elLogger,       \* the logger create_error_logger gave last
    elLogs,         \* the number of records inserted into each error log
    elChannel,      \* the error reporter channel
    elCount,        \* the number of errors logged so far
    elLast,         \* the kind of the error logged last
    elResult,       \* what run_with_new_dataflow_graph returned, or "running"
    elErr,          \* the error a call on the graph returned, or "none"
    \* ---- ErrorLogInner ----
    flLast,         \* last_flush: <<>> for None, <<time>> for Some(time)
    flPending,      \* the records inserted into the session and not flushed
    flFlushed,      \* the records flushed
    flAdvances,     \* how many times the session was advanced and flushed
    flCall,         \* the last call: its name, its now, what it returned and sent
    \* ---- the calls that build a graph ----
    gbInner,        \* the graph is the one used inside iterate
    gbTables,       \* the number of tables in the arena
    gbCall,         \* the last call: its name, its arguments, what it returned
    \* ---- deduplicate ----
    ddState,        \* the state kept for each group: a value, or NoRow
    ddOut,          \* the result table: group -> value, or NoRow
    ddLast,         \* the last batch: its rows, the calls of combine_fn, the updates
    \* ---- UniverseData, ColumnData ----
    mdKind,         \* "UniverseData" or "ColumnData"
    mdFrom,         \* the form the data was created from
    mdCells,        \* each form: 0 while its cell is empty, else the object it holds
    mdBuilds,       \* how many times each form was built
    mdFirst,        \* what the first call of each method returned, 0 before it
    mdCall,         \* the last call: its name and what it returned
    mdCalls,        \* the number of calls
    \* ---- subscribe_table callbacks ----
    sbSkip,         \* config.skip_persisted_batch
    sbStorage,      \* the worker has persistent storage
    sbPersisted,    \* the times that are from persistence: the first one
    sbInput,        \* the time the input is at, past the last time once closed
    sbPending,      \* per worker and time: the rows of the batch not yet inspected
    sbSeen,         \* per worker: the frontier inspect_core saw last
    sbLast,         \* the last batch inspected and the callbacks made for it
    sbFrontier,     \* the last on_frontier or on_end call
    sbEnded,        \* on_end has been called
    \* ---- the worker loop ----
    lpPc,           \* "loop", "after" the loop, "joined", or "unwound"
    lpFailed,       \* the failed flag
    lpFlushers,     \* the flushers
    lpPollers,      \* the pollers
    lpStart,        \* the flushers and pollers at the start of the last iteration
    lpCalls,        \* the calls of the last iteration, in order
    lpBroken,       \* the pollers that have returned Break
    lpStep,         \* what step_or_park returned last
    lpIterations,   \* the number of iterations
    \* ---- output_table on several workers ----
    otSingle,       \* data_sink.single_threaded()
    otThreads,      \* the workers that have started an output thread
    otProduced,     \* the rows produced so far, each with the worker it is produced on
    otBatch,        \* per worker: the rows of the batch inspect_core gets next
    otChan,         \* per worker: the batches sent to its output thread
    otWritten,      \* per worker: the rows its output thread has written
    otAssertFailed  \* the assertion of inspect_core has failed

driverVars == <<workers, chan, failed, wpc, werr, token, dpc, derr, dsrc, unparkNext,
                wakeup, result, firstEnqueued>>

sinkVars == <<sinkKind, skipErrors, skipPending, sinkFed, sinkPending,
              sinkQueue, sinkWritten, sinkOnData, sinkLogged, sinkErrFed>>

staticVars == <<statKind, statRows, statEmit, statDone>>

updateVars == <<origT, updT, cellPaths, rowsOut, rowsLog, cellsOut, cellsLog,
                concatOut, updRemoved>>

exprVars == <<exprMode, exprPresent, exprCache, exprBatch, exprEvals,
              exprFirst, exprLastIns, exprError, exprSteps, exprRestarted>>

iterVars == <<itPc, itLimit, itInput, itVar, itVal, itRound, itScopes, itTables,
              itResult, itErr>>

streamVars == <<stT, stTime, stIn, stOut, stBack>>

outVars == <<outRetriable, outPersist, outLog, outNext, outSender, outTime, outPc,
             outRowLog, outWritten, outFlushed, outFinalized, outCommits, outErr>>

groupVars == <<grpMode, grpRows, grpTime, grpSumState, grpOut, grpEmit, grpFirst,
               grpLast>>

ixVars == <<ixPolicy, ixKeyT, ixSrc, ixOut, ixLog, ixErr>>

joinVars == <<joinType, joinLeft, joinRight, joinOut, joinLog>>

forgetVars == <<fgTime, fgIn, fgOut, fgBack, fgErr>>

setVars == <<setA, setB, setSub, setInt, setCat>>

loggerVars == <<elTerminate, elInner, elDefault, elCurrent, elOperator, elLogger, elLogs,
                elChannel, elCount, elLast, elResult, elErr>>

flushVars == <<flLast, flPending, flFlushed, flAdvances, flCall>>

buildVars == <<gbInner, gbTables, gbCall>>

dedupVars == <<ddState, ddOut, ddLast>>

memoVars == <<mdKind, mdFrom, mdCells, mdBuilds, mdFirst, mdCall, mdCalls>>

subscribeVars == <<sbSkip, sbStorage, sbPersisted, sbInput, sbPending, sbSeen, sbLast,
                   sbFrontier, sbEnded>>

loopVars == <<lpPc, lpFailed, lpFlushers, lpPollers, lpStart, lpCalls, lpBroken, lpStep,
              lpIterations>>

otVars == <<otSingle, otThreads, otProduced, otBatch, otChan, otWritten, otAssertFailed>>

vars == <<driverVars, sinkVars, staticVars, updateVars, exprVars, iterVars, streamVars, outVars, groupVars, ixVars, joinVars, forgetVars, setVars, loggerVars, flushVars, buildVars, dedupVars, memoVars, subscribeVars, loopVars, otVars>>

\* what each part leaves alone
notDriver == <<sinkVars, staticVars, updateVars, exprVars, iterVars, streamVars, outVars, groupVars, ixVars, joinVars, forgetVars, setVars, loggerVars, flushVars, buildVars, dedupVars, memoVars, subscribeVars, loopVars, otVars>>
notSink == <<driverVars, staticVars, updateVars, exprVars, iterVars, streamVars, outVars, groupVars, ixVars, joinVars, forgetVars, setVars, loggerVars, flushVars, buildVars, dedupVars, memoVars, subscribeVars, loopVars, otVars>>
notStatic == <<driverVars, sinkVars, updateVars, exprVars, iterVars, streamVars, outVars, groupVars, ixVars, joinVars, forgetVars, setVars, loggerVars, flushVars, buildVars, dedupVars, memoVars, subscribeVars, loopVars, otVars>>
notUpdate == <<driverVars, sinkVars, staticVars, exprVars, iterVars, streamVars, outVars, groupVars, ixVars, joinVars, forgetVars, setVars, loggerVars, flushVars, buildVars, dedupVars, memoVars, subscribeVars, loopVars, otVars>>
notExpr == <<driverVars, sinkVars, staticVars, updateVars, iterVars, streamVars, outVars, groupVars, ixVars, joinVars, forgetVars, setVars, loggerVars, flushVars, buildVars, dedupVars, memoVars, subscribeVars, loopVars, otVars>>
notIter == <<driverVars, sinkVars, staticVars, updateVars, exprVars, streamVars, outVars, groupVars, ixVars, joinVars, forgetVars, setVars, loggerVars, flushVars, buildVars, dedupVars, memoVars, subscribeVars, loopVars, otVars>>
notStream == <<driverVars, sinkVars, staticVars, updateVars, exprVars, iterVars, outVars, groupVars, ixVars, joinVars, forgetVars, setVars, loggerVars, flushVars, buildVars, dedupVars, memoVars, subscribeVars, loopVars, otVars>>
notOut == <<driverVars, sinkVars, staticVars, updateVars, exprVars, iterVars, streamVars, groupVars, ixVars, joinVars, forgetVars, setVars, loggerVars, flushVars, buildVars, dedupVars, memoVars, subscribeVars, loopVars, otVars>>
notGroup == <<driverVars, sinkVars, staticVars, updateVars, exprVars, iterVars, streamVars, outVars, ixVars, joinVars, forgetVars, setVars, loggerVars, flushVars, buildVars, dedupVars, memoVars, subscribeVars, loopVars, otVars>>
notIx == <<driverVars, sinkVars, staticVars, updateVars, exprVars, iterVars, streamVars, outVars, groupVars, joinVars, forgetVars, setVars, loggerVars, flushVars, buildVars, dedupVars, memoVars, subscribeVars, loopVars, otVars>>
notJoin == <<driverVars, sinkVars, staticVars, updateVars, exprVars, iterVars, streamVars, outVars, groupVars, ixVars, forgetVars, setVars, loggerVars, flushVars, buildVars, dedupVars, memoVars, subscribeVars, loopVars, otVars>>
notForget == <<driverVars, sinkVars, staticVars, updateVars, exprVars, iterVars, streamVars, outVars, groupVars, ixVars, joinVars, setVars, loggerVars, flushVars, buildVars, dedupVars, memoVars, subscribeVars, loopVars, otVars>>
notSet == <<driverVars, sinkVars, staticVars, updateVars, exprVars, iterVars, streamVars, outVars, groupVars, ixVars, joinVars, forgetVars, loggerVars, flushVars, buildVars, dedupVars, memoVars, subscribeVars, loopVars, otVars>>
notLogger == <<driverVars, sinkVars, staticVars, updateVars, exprVars, iterVars, streamVars, outVars, groupVars, ixVars, joinVars, forgetVars, setVars, flushVars, buildVars, dedupVars, memoVars, subscribeVars, loopVars, otVars>>
notFlush == <<driverVars, sinkVars, staticVars, updateVars, exprVars, iterVars, streamVars, outVars, groupVars, ixVars, joinVars, forgetVars, setVars, loggerVars, buildVars, dedupVars, memoVars, subscribeVars, loopVars, otVars>>
notBuild == <<driverVars, sinkVars, staticVars, updateVars, exprVars, iterVars, streamVars, outVars, groupVars, ixVars, joinVars, forgetVars, setVars, loggerVars, flushVars, dedupVars, memoVars, subscribeVars, loopVars, otVars>>
notDedup == <<driverVars, sinkVars, staticVars, updateVars, exprVars, iterVars, streamVars, outVars, groupVars, ixVars, joinVars, forgetVars, setVars, loggerVars, flushVars, buildVars, memoVars, subscribeVars, loopVars, otVars>>
notMemo == <<driverVars, sinkVars, staticVars, updateVars, exprVars, iterVars, streamVars, outVars, groupVars, ixVars, joinVars, forgetVars, setVars, loggerVars, flushVars, buildVars, dedupVars, subscribeVars, loopVars, otVars>>
notSubscribe == <<driverVars, sinkVars, staticVars, updateVars, exprVars, iterVars, streamVars, outVars, groupVars, ixVars, joinVars, forgetVars, setVars, loggerVars, flushVars, buildVars, dedupVars, memoVars, loopVars, otVars>>
notLoop == <<driverVars, sinkVars, staticVars, updateVars, exprVars, iterVars, streamVars, outVars, groupVars, ixVars, joinVars, forgetVars, setVars, loggerVars, flushVars, buildVars, dedupVars, memoVars, subscribeVars, otVars>>
notOt == <<driverVars, sinkVars, staticVars, updateVars, exprVars, iterVars, streamVars, outVars, groupVars, ixVars, joinVars, forgetVars, setVars, loggerVars, flushVars, buildVars, dedupVars, memoVars, subscribeVars, loopVars>>

(***************************************************************************)
(* The idle state of each part: what its variables hold in the             *)
(* specifications of the other parts.                                      *)
(***************************************************************************)
DriverIdle ==
    /\ workers = {}
    /\ chan = <<>>
    /\ failed = FALSE
    /\ wpc = <<>>
    /\ werr = <<>>
    /\ token = <<>>
    /\ dpc = "idle"
    /\ derr = <<"none">>
    /\ dsrc = "none"
    /\ unparkNext = 1
    /\ wakeup = "closed"
    /\ result = <<"idle">>
    /\ firstEnqueued = <<"none">>

SinkIdle ==
    /\ sinkKind = "idle"
    /\ skipErrors = FALSE
    /\ skipPending = FALSE
    /\ sinkFed = 0
    /\ sinkPending = <<>>
    /\ sinkQueue = <<>>
    /\ sinkWritten = {}
    /\ sinkOnData = {}
    /\ sinkLogged = 0
    /\ sinkErrFed = 0

StaticIdle ==
    /\ statKind = "idle"
    /\ statRows = {}
    /\ statEmit = <<>>
    /\ statDone = <<>>

UpdateIdle ==
    /\ origT = <<>>
    /\ updT = <<>>
    /\ cellPaths = <<>>
    /\ rowsOut = <<>>
    /\ rowsLog = <<>>
    /\ cellsOut = <<>>
    /\ cellsLog = <<>>
    /\ concatOut = <<>>
    /\ updRemoved = FALSE

ExprIdle ==
    /\ exprMode = "idle"
    /\ exprPresent = <<>>
    /\ exprCache = <<>>
    /\ exprBatch = <<>>
    /\ exprEvals = <<>>
    /\ exprFirst = <<>>
    /\ exprLastIns = <<>>
    /\ exprError = "none"
    /\ exprSteps = 0
    /\ exprRestarted = "no"

IterIdle ==
    /\ itPc = "idle"
    /\ itLimit = -1
    /\ itInput = {}
    /\ itVar = {}
    /\ itVal = {}
    /\ itRound = 0
    /\ itScopes = 0
    /\ itTables = 0
    /\ itResult = {}
    /\ itErr = "none"

StreamIdle ==
    /\ stT = <<>>
    /\ stTime = 0
    /\ stIn = {}
    /\ stOut = <<>>
    /\ stBack = <<>>

OutIdle ==
    /\ outRetriable = FALSE
    /\ outPersist = FALSE
    /\ outLog = <<>>
    /\ outNext = 0
    /\ outSender = "idle"
    /\ outTime = 0
    /\ outPc = "idle"
    /\ outRowLog = <<>>
    /\ outWritten = {}
    /\ outFlushed = {}
    /\ outFinalized = <<>>
    /\ outCommits = 0
    /\ outErr = "none"

GroupIdle ==
    /\ grpMode = "idle"
    /\ grpRows = <<>>
    /\ grpTime = 0
    /\ grpSumState = <<>>
    /\ grpOut = <<>>
    /\ grpEmit = {}
    /\ grpFirst = {}
    /\ grpLast = {}

IxIdle ==
    /\ ixPolicy = "idle"
    /\ ixKeyT = <<>>
    /\ ixSrc = {}
    /\ ixOut = {}
    /\ ixLog = {}
    /\ ixErr = "none"

JoinIdle ==
    /\ joinType = "idle"
    /\ joinLeft = <<>>
    /\ joinRight = <<>>
    /\ joinOut = {}
    /\ joinLog = {}

ForgetIdle ==
    /\ fgTime = 0
    /\ fgIn = <<>>
    /\ fgOut = <<>>
    /\ fgBack = <<>>
    /\ fgErr = "idle"

SetIdle ==
    /\ setA = <<>>
    /\ setB = <<>>
    /\ setSub = <<>>
    /\ setInt = <<>>
    /\ setCat = <<>>

LoggerIdle ==
    /\ elTerminate = FALSE
    /\ elInner = FALSE
    /\ elDefault = 0
    /\ elCurrent = 0
    /\ elOperator = "idle"
    /\ elLogger = <<>>
    /\ elLogs = <<>>
    /\ elChannel = <<>>
    /\ elCount = 0
    /\ elLast = "idle"
    /\ elResult = <<>>
    /\ elErr = "idle"

FlushIdle ==
    /\ flLast = <<>>
    /\ flPending = 0
    /\ flFlushed = 0
    /\ flAdvances = 0
    /\ flCall = <<>>

BuildIdle ==
    /\ gbInner = FALSE
    /\ gbTables = 0
    /\ gbCall = <<>>

DedupIdle ==
    /\ ddState = <<>>
    /\ ddOut = <<>>
    /\ ddLast = <<>>

MemoIdle ==
    /\ mdKind = "idle"
    /\ mdFrom = "idle"
    /\ mdCells = <<>>
    /\ mdBuilds = <<>>
    /\ mdFirst = <<>>
    /\ mdCall = <<>>
    /\ mdCalls = 0

SubscribeIdle ==
    /\ sbSkip = FALSE
    /\ sbStorage = FALSE
    /\ sbPersisted = {}
    /\ sbInput = 0
    /\ sbPending = <<>>
    /\ sbSeen = <<>>
    /\ sbLast = <<>>
    /\ sbFrontier = <<>>
    /\ sbEnded = FALSE

LoopIdle ==
    /\ lpPc = "idle"
    /\ lpFailed = FALSE
    /\ lpFlushers = {}
    /\ lpPollers = {}
    /\ lpStart = <<>>
    /\ lpCalls = <<>>
    /\ lpBroken = {}
    /\ lpStep = TRUE
    /\ lpIterations = 0

OtIdle ==
    /\ otSingle = FALSE
    /\ otThreads = {}
    /\ otProduced = {}
    /\ otBatch = <<>>
    /\ otChan = <<>>
    /\ otWritten = <<>>
    /\ otAssertFailed = FALSE

(***************************************************************************)
(* Bounds of the model.                                                    *)
(***************************************************************************)
NWorkers == 2

(***************************************************************************)
(* Driver: run_with_new_dataflow_graph                                     *)
(***************************************************************************)
NoErr == <<"none">>
OtherWorkerPanicked == <<"other worker panicked">>
WakeupError == <<"wakeup">>
PanicError(w) == <<"panic", w>>
LoggedError(w) == <<"log", w>>

\* bounded(1) in ErrorReporter::create
ChannelCapacity == 1

\* A mutated try_send: a full channel takes the new error in place of the old.
TrySendOverwrite(q, e) ==
    IF Len(q) < ChannelCapacity THEN Append(q, e) ELSE <<e>>

\* A mutated failed.load: the flag is never seen.
FailedLoadNever == FALSE

\* sender.try_send(error).unwrap_or(()): enqueue when there is room, else drop.
TrySend(q, e) ==
    IF Len(q) < ChannelCapacity THEN Append(q, e) ELSE q

\* ErrorReporter::report, with the history of the first enqueued error.
Report(e) ==
    /\ chan' = TrySend(chan, e)
    /\ firstEnqueued' = IF firstEnqueued = NoErr /\ TrySend(chan, e) # chan
                        THEN e ELSE firstEnqueued

\* failed.load(Ordering::SeqCst) at the top of the worker loop
FailedLoad == failed

\* failed_2.store(true, Ordering::SeqCst)
FailedStore == TRUE

Terminated(w) == wpc[w] \in {"finished", "unwound"}

\* The state when execute(..) has started n worker threads.
DriverInit(n) ==
    /\ workers = 1..n
    /\ chan = <<>>
    /\ failed = FALSE
    /\ wpc = [w \in workers |-> "build"]
    /\ werr = [w \in workers |-> NoErr]
    /\ token = [w \in workers |-> FALSE]
    /\ dpc = "select"
    /\ derr = NoErr
    /\ dsrc = "none"
    /\ unparkNext = 1
    /\ wakeup \in {"open", "closed"}
    /\ result = <<"running">>
    /\ firstEnqueued = NoErr

\* worker.dataflow(...): the graph is built, the loop is entered.
WBuild(w) ==
    /\ wpc[w] = "build"
    /\ wpc' = [wpc EXCEPT ![w] = "top"]
    /\ UNCHANGED <<workers, chan, failed, werr, token, dpc, derr, dsrc, unparkNext,
                   wakeup, result, firstEnqueued>>
    /\ UNCHANGED notDriver

\* Top of the loop: if failed.load() { resume_unwind("other worker panicked") }
WTop(w) ==
    /\ wpc[w] = "top"
    /\ IF FailedLoad
       THEN /\ wpc' = [wpc EXCEPT ![w] = "caught"]
            /\ werr' = [werr EXCEPT ![w] = OtherWorkerPanicked]
       ELSE /\ wpc' = [wpc EXCEPT ![w] = "flush_poll"]
            /\ werr' = werr
    /\ UNCHANGED <<workers, chan, failed, token, dpc, derr, dsrc, unparkNext,
                   wakeup, result, firstEnqueued>>
    /\ UNCHANGED notDriver

\* the body of the loop before step_or_park: probers are updated, every
\* flusher is called, pollers.retain_mut(...) calls every poller
WFlushPoll(w) ==
    /\ wpc[w] = "flush_poll"
    /\ wpc' = [wpc EXCEPT ![w] = "step"]
    /\ UNCHANGED <<workers, chan, failed, werr, token, dpc, derr, dsrc, unparkNext,
                   wakeup, result, firstEnqueued>>
    /\ UNCHANGED notDriver

\* worker.step_or_park(..) returns: true goes round the loop, false leaves it.
WStepReturn(w) ==
    /\ wpc[w] = "step"
    /\ \E more \in BOOLEAN :
          wpc' = [wpc EXCEPT ![w] = IF more THEN "top" ELSE "join"]
    /\ UNCHANGED <<workers, chan, failed, werr, token, dpc, derr, dsrc, unparkNext,
                   wakeup, result, firstEnqueued>>
    /\ UNCHANGED notDriver

\* step_or_park finds nothing to do and parks the thread; a pending unpark
\* token makes park return at once.
WPark(w) ==
    /\ wpc[w] = "step"
    /\ IF token[w]
       THEN /\ token' = [token EXCEPT ![w] = FALSE]
            /\ wpc' = [wpc EXCEPT ![w] = "top"]
       ELSE /\ token' = token
            /\ wpc' = [wpc EXCEPT ![w] = "parked"]
    /\ UNCHANGED <<workers, chan, failed, werr, dpc, derr, dsrc, unparkNext,
                   wakeup, result, firstEnqueued>>
    /\ UNCHANGED notDriver

\* a parked thread is woken by an unpark
WWake(w) ==
    /\ wpc[w] = "parked"
    /\ token[w]
    /\ token' = [token EXCEPT ![w] = FALSE]
    /\ wpc' = [wpc EXCEPT ![w] = "top"]
    /\ UNCHANGED <<workers, chan, failed, werr, dpc, derr, dsrc, unparkNext,
                   wakeup, result, firstEnqueued>>
    /\ UNCHANGED notDriver

\* a parked thread wakes because next_step_duration elapsed
WTimeout(w) ==
    /\ wpc[w] = "parked"
    /\ ~token[w]
    /\ wpc' = [wpc EXCEPT ![w] = "top"]
    /\ UNCHANGED <<workers, chan, failed, werr, token, dpc, derr, dsrc, unparkNext,
                   wakeup, result, firstEnqueued>>
    /\ UNCHANGED notDriver

\* A logger made with terminate_on_error reports an error from an operator
\* running inside step_or_park; the worker goes on.
WLogReport(w) ==
    /\ wpc[w] = "step"
    /\ Report(LoggedError(w))
    /\ UNCHANGED <<workers, failed, wpc, werr, token, dpc, derr, dsrc, unparkNext,
                   wakeup, result>>
    /\ UNCHANGED notDriver

\* Code of the worker closure panics (an assert, an expect, or
\* unwrap_with_reporter, which reports the error first); catch_unwind takes
\* the payload.
WPanic(w) ==
    /\ wpc[w] \in {"build", "flush_poll", "step", "join"}
    /\ \E reportsFirst \in BOOLEAN :
          IF reportsFirst
          THEN Report(PanicError(w))
          ELSE UNCHANGED <<chan, firstEnqueued>>
    /\ wpc' = [wpc EXCEPT ![w] = "caught"]
    /\ werr' = [werr EXCEPT ![w] = PanicError(w)]
    /\ UNCHANGED <<workers, failed, token, dpc, derr, dsrc, unparkNext,
                   wakeup, result>>
    /\ UNCHANGED notDriver

\* unwrap_or_else(|panic_payload| { error_reporter.report(error);
\*                                  resume_unwind(..) })
WReportCaught(w) ==
    /\ wpc[w] = "caught"
    /\ Report(werr[w])
    /\ wpc' = [wpc EXCEPT ![w] = "unwound"]
    /\ werr' = [werr EXCEPT ![w] = NoErr]
    /\ UNCHANGED <<workers, failed, token, dpc, derr, dsrc, unparkNext,
                   wakeup, result>>
    /\ UNCHANGED notDriver

\* after the loop: connector threads are joined and finish(res) returns
WJoin(w) ==
    /\ wpc[w] = "join"
    /\ wpc' = [wpc EXCEPT ![w] = "finished"]
    /\ UNCHANGED <<workers, chan, failed, werr, token, dpc, derr, dsrc, unparkNext,
                   wakeup, result, firstEnqueued>>
    /\ UNCHANGED notDriver

\* select!: recv(error_receiver) -> Ok(error) => break Err(error)
DRecvError ==
    /\ dpc = "select"
    /\ chan # <<>>
    /\ derr' = Head(chan)
    /\ chan' = Tail(chan)
    /\ dsrc' = "chan"
    /\ dpc' = "store"
    /\ UNCHANGED <<workers, failed, wpc, werr, token, unparkNext, wakeup,
                   result, firstEnqueued>>
    /\ UNCHANGED notDriver

\* select!: recv(error_receiver) -> Err(RecvError) => break Ok(()): the channel
\* is empty and every sender (held by the worker closures) is dropped.
DRecvDisconnected ==
    /\ dpc = "select"
    /\ chan = <<>>
    /\ \A w \in workers : Terminated(w)
    /\ dpc' = "join_ok"
    /\ UNCHANGED <<workers, chan, failed, wpc, werr, token, derr, dsrc, unparkNext,
                   wakeup, result, firstEnqueued>>
    /\ UNCHANGED notDriver

\* select!: recv(wakeup_receiver) -> Ok(callback): callback() returns Ok(())
\* and the loop goes on, or Err(error) and the loop breaks with it.
DWakeup ==
    /\ dpc = "select"
    /\ wakeup = "open"
    /\ \E ok \in BOOLEAN :
          IF ok
          THEN UNCHANGED <<derr, dsrc, dpc>>
          ELSE /\ derr' = WakeupError
               /\ dsrc' = "wakeup"
               /\ dpc' = "store"
    /\ UNCHANGED <<workers, chan, failed, wpc, werr, token, unparkNext, wakeup,
                   result, firstEnqueued>>
    /\ UNCHANGED notDriver

\* select!: recv(wakeup_receiver) -> Err(RecvError) => wakeup_receiver = None
DWakeupClosed ==
    /\ dpc = "select"
    /\ wakeup = "open"
    /\ wakeup' = "closed"
    /\ UNCHANGED <<workers, chan, failed, wpc, werr, token, dpc, derr, dsrc,
                   unparkNext, result, firstEnqueued>>
    /\ UNCHANGED notDriver

\* Err(error) => failed_2.store(true, SeqCst)
DStoreFailed ==
    /\ dpc = "store"
    /\ failed' = FailedStore
    /\ dpc' = "unpark"
    /\ unparkNext' = 1
    /\ UNCHANGED <<workers, chan, wpc, werr, token, derr, dsrc, wakeup,
                   result, firstEnqueued>>
    /\ UNCHANGED notDriver

\* for handle in guards.guards() { handle.thread().unpark() }
DUnpark ==
    /\ dpc = "unpark"
    /\ IF unparkNext <= Cardinality(workers)
       THEN /\ token' = IF Terminated(unparkNext)
                       THEN token   \* the thread has ended: nothing to wake
                       ELSE [token EXCEPT ![unparkNext] = TRUE]
            /\ unparkNext' = unparkNext + 1
            /\ dpc' = dpc
       ELSE /\ token' = token
            /\ unparkNext' = unparkNext
            /\ dpc' = "join_err"
    /\ UNCHANGED <<workers, chan, failed, wpc, werr, derr, dsrc, wakeup,
                   result, firstEnqueued>>
    /\ UNCHANGED notDriver

\* catch_unwind(|| drop(guards.join())); return Err(error)
DJoinErr ==
    /\ dpc = "join_err"
    /\ \A w \in workers : Terminated(w)
    /\ result' = <<"Err", derr>>
    /\ dpc' = "done"
    /\ UNCHANGED <<workers, chan, failed, wpc, werr, token, derr, dsrc, unparkNext,
                   wakeup, firstEnqueued>>
    /\ UNCHANGED notDriver

\* guards.join() ... map_err(Error::WorkerPanic) ... Ok(res)
DJoinOk ==
    /\ dpc = "join_ok"
    /\ \A w \in workers : Terminated(w)
    /\ result' = IF \E w \in workers : wpc[w] = "unwound"
                 THEN <<"Err", <<"WorkerPanic">>>>
                 ELSE <<"Ok">>
    /\ dpc' = "done"
    /\ UNCHANGED <<workers, chan, failed, wpc, werr, token, derr, dsrc, unparkNext,
                   wakeup, firstEnqueued>>
    /\ UNCHANGED notDriver

\* the steps a worker thread takes on its own
WorkerProgress(w) ==
    \/ WBuild(w) \/ WTop(w) \/ WFlushPoll(w) \/ WStepReturn(w)
    \/ WPark(w) \/ WWake(w) \/ WReportCaught(w) \/ WJoin(w)

\* what may or may not happen to a worker
WorkerEvent(w) == WTimeout(w) \/ WLogReport(w) \/ WPanic(w)

DriverProgress ==
    \/ DRecvError \/ DRecvDisconnected \/ DStoreFailed \/ DUnpark
    \/ DJoinErr \/ DJoinOk

DriverEvent == DWakeup \/ DWakeupClosed

DriverNext ==
    \/ \E w \in workers : WBuild(w)
    \/ \E w \in workers : WTop(w)
    \/ \E w \in workers : WFlushPoll(w)
    \/ \E w \in workers : WStepReturn(w)
    \/ \E w \in workers : WPark(w)
    \/ \E w \in workers : WWake(w)
    \/ \E w \in workers : WTimeout(w)
    \/ \E w \in workers : WLogReport(w)
    \/ \E w \in workers : WPanic(w)
    \/ \E w \in workers : WReportCaught(w)
    \/ \E w \in workers : WJoin(w)
    \/ DRecvError
    \/ DRecvDisconnected
    \/ DWakeup
    \/ DWakeupClosed
    \/ DStoreFailed
    \/ DUnpark
    \/ DJoinErr
    \/ DJoinOk

InitDriver ==
    /\ DriverInit(NWorkers)
    /\ SinkIdle /\ StaticIdle /\ UpdateIdle /\ ExprIdle /\ IterIdle /\ StreamIdle /\ OutIdle /\ GroupIdle /\ IxIdle /\ JoinIdle /\ ForgetIdle /\ SetIdle /\ LoggerIdle /\ FlushIdle /\ BuildIdle /\ DedupIdle /\ MemoIdle /\ SubscribeIdle /\ LoopIdle /\ OtIdle

SpecDriver == InitDriver /\ [][DriverNext]_vars

\* Threads are scheduled by the operating system: a thread that can take a
\* step of its own eventually takes one.
SpecDriverFair ==
    /\ InitDriver
    /\ [][DriverNext]_vars
    /\ \A w \in 1..NWorkers : WF_vars(WorkerProgress(w))
    /\ WF_vars(DriverProgress)

(***************************************************************************)
(* Claims about the driver                                                 *)
(***************************************************************************)

\* C1: ErrorReporter::report never blocks (a reporting thread can always take
\* its step), the channel holds at most one error and, until the driver
\* receives from it, that error is the first one enqueued (later reports
\* are discarded); an error the driver takes from the channel, and returns,
\* is the first error that was enqueued.
C1_FirstErrorWins ==
    /\ Len(chan) <= ChannelCapacity
    /\ \A w \in workers :
          /\ wpc[w] = "caught" => ENABLED WReportCaught(w)
          /\ wpc[w] = "step" => ENABLED WLogReport(w)
    /\ (chan # <<>> /\ dsrc # "chan") => chan = <<firstEnqueued>>
    /\ dsrc = "chan" => derr = firstEnqueued
    /\ (dpc = "done" /\ dsrc = "chan") => result = <<"Err", firstEnqueued>>

\* C1 witness: several workers reported while unwinding, the driver returned
\* the first enqueued error and the channel is empty: every other report
\* found the channel full and was discarded.
C1_Witness ==
    /\ dpc = "done"
    /\ dsrc = "chan"
    /\ result = <<"Err", firstEnqueued>>
    /\ chan = <<>>
    /\ Cardinality(workers) >= 2
    /\ \A w \in workers : wpc[w] = "unwound"

\* C2: the failed flag is set before any worker is unparked; a worker at the
\* top of its loop that sees the flag unwinds, and never runs flushers,
\* pollers or step_or_park again; once the driver has received an error it
\* eventually returns Err with that error and never anything else.
C2_ShutdownOnError ==
    /\ [](\A w \in workers : token[w] => failed)
    /\ [](dpc \in {"unpark", "join_err"} => failed)
    /\ [][\A w \in workers :
            /\ (wpc[w] = "top" /\ failed) => wpc'[w] \in {"top", "caught"}
            /\ wpc[w] \in {"caught", "unwound"}
                  => wpc'[w] \in {"caught", "unwound"}]_vars
    /\ []((dpc = "done" /\ dsrc # "none") => result = <<"Err", derr>>)
    /\ [][dsrc # "none" => (derr' = derr /\ dsrc' = dsrc)]_vars
    /\ (dsrc # "none") ~> (dpc = "done")

\* C2 witness: the driver returned the error a wakeup callback gave it, after
\* every worker unwound and the first of them to report had seen the failed
\* flag at the top of its loop.
C2_Witness ==
    /\ dpc = "done"
    /\ dsrc # "none"
    /\ result = <<"Err", derr>>
    /\ \A w \in workers : wpc[w] = "unwound"
    /\ dsrc = "wakeup"
    /\ firstEnqueued = OtherWorkerPanicked

(***************************************************************************)
(* Sinks: output_table and subscribe_table.                                *)
(*                                                                         *)
(* The dataflow of a sink is extract_columns, then filter_out_errors       *)
(* (always for output_table, under skip_errors for subscribe_table), then  *)
(* filter_out_pending (subscribe_table under skip_pending), then           *)
(* consolidate_for_output, which hands over one batch per closed time.     *)
(* output_table sends the batch and the commit over an mpsc channel to its *)
(* output thread; subscribe_table calls on_data for each row of the batch. *)
(* The sink runs without persistent storage.                               *)
(***************************************************************************)
MaxSinkRows == 3

\* Value: the variants that matter to the filters
VError == <<"Error">>
VPending == <<"Pending">>
VInt(n) == <<"Int", n>>
VTuple(xs) == <<"Tuple", xs>>

\* the (key, values) pairs the sinks are fed with
SinkRows ==
    { [key |-> 1, values |-> <<VInt(1), VInt(2)>>],
      [key |-> 2, values |-> <<VInt(1), VError>>],
      [key |-> 3, values |-> <<VError, VInt(2)>>],
      [key |-> 4, values |-> <<VInt(1), VTuple(<<VError, VInt(2)>>)>>],
      [key |-> 5, values |-> <<VInt(1), VPending>>] }

\* values.as_value_slice().contains(&v)
SliceContains(values, v) == \E i \in DOMAIN values : values[i] = v

FilterOutErrorsKeepsAll(values) == TRUE

\* the predicate of filter_out_errors' filter
FilterOutErrorsKeeps(values) == ~SliceContains(values, VError)

\* the predicate of filter_out_pending's filter
FilterOutPendingKeeps(values) == ~SliceContains(values, VPending)

\* filter_out_errors is part of the sink's dataflow
SinkFiltersErrors == sinkKind = "output_table" \/ skipErrors

\* the row reaches consolidate_for_output
SinkKeeps(values) ==
    /\ SinkFiltersErrors => FilterOutErrorsKeeps(values)
    /\ (sinkKind = "subscribe_table" /\ skipPending)
          => FilterOutPendingKeeps(values)

\* the batch consolidate_for_output produces for the open time
SinkBatch == {r \in SinkRows : sinkPending[r] # 0}

SinkInit ==
    /\ sinkKind \in {"output_table", "subscribe_table"}
    /\ skipErrors \in BOOLEAN
    /\ skipPending \in BOOLEAN
    /\ sinkKind = "output_table" => (~skipErrors /\ ~skipPending)
    /\ sinkFed = 0
    /\ sinkPending = [r \in SinkRows |-> 0]
    /\ sinkQueue = <<>>
    /\ sinkWritten = {}
    /\ sinkOnData = {}
    /\ sinkLogged = 0
    /\ sinkErrFed = 0

\* one update (row, diff) of the table flows through the filters
SinkInput(row, diff) ==
    /\ sinkKind # "idle"
    /\ sinkFed < MaxSinkRows
    /\ sinkFed' = sinkFed + 1
    /\ sinkErrFed' = IF SliceContains(row.values, VError)
                     THEN sinkErrFed + 1 ELSE sinkErrFed
    /\ sinkLogged' = IF SinkFiltersErrors /\ SliceContains(row.values, VError)
                     THEN sinkLogged + 1 ELSE sinkLogged
    /\ sinkPending' = IF SinkKeeps(row.values)
                      THEN [sinkPending EXCEPT ![row] = @ + diff]
                      ELSE sinkPending
    /\ UNCHANGED <<sinkKind, skipErrors, skipPending, sinkQueue, sinkWritten,
                   sinkOnData>>
    /\ UNCHANGED notSink

\* the time closes: output_table's inspect_core sends the batch and the commit
SinkSendBatch ==
    /\ sinkKind = "output_table"
    /\ SinkBatch # {}
    /\ sinkQueue' = sinkQueue \o <<[event |-> "Batch", data |-> SinkBatch],
                                   [event |-> "Commit", data |-> {}]>>
    /\ sinkPending' = [r \in SinkRows |-> 0]
    /\ UNCHANGED <<sinkKind, skipErrors, skipPending, sinkFed, sinkWritten,
                   sinkOnData, sinkLogged, sinkErrFed>>
    /\ UNCHANGED notSink

\* the output thread receives one event: output_batch or commit_output_time
SinkThreadRecv ==
    /\ sinkKind = "output_table"
    /\ sinkQueue # <<>>
    /\ sinkWritten' = IF Head(sinkQueue).event = "Batch"
                      THEN sinkWritten \cup Head(sinkQueue).data
                      ELSE sinkWritten
    /\ sinkQueue' = Tail(sinkQueue)
    /\ UNCHANGED <<sinkKind, skipErrors, skipPending, sinkFed, sinkPending,
                   sinkOnData, sinkLogged, sinkErrFed>>
    /\ UNCHANGED notSink

\* the time closes: subscribe_table's inspect calls on_data for each row of
\* the batch, then on_time_end
SinkOnBatch ==
    /\ sinkKind = "subscribe_table"
    /\ SinkBatch # {}
    /\ sinkOnData' = sinkOnData \cup SinkBatch
    /\ sinkPending' = [r \in SinkRows |-> 0]
    /\ UNCHANGED <<sinkKind, skipErrors, skipPending, sinkFed, sinkQueue,
                   sinkWritten, sinkLogged, sinkErrFed>>
    /\ UNCHANGED notSink

SinkNext ==
    \/ \E row \in SinkRows, diff \in {1, -1} : SinkInput(row, diff)
    \/ SinkSendBatch
    \/ SinkThreadRecv
    \/ SinkOnBatch

InitSink ==
    /\ SinkInit
    /\ DriverIdle /\ StaticIdle /\ UpdateIdle /\ ExprIdle /\ IterIdle /\ StreamIdle /\ OutIdle /\ GroupIdle /\ IxIdle /\ JoinIdle /\ ForgetIdle /\ SetIdle /\ LoggerIdle /\ FlushIdle /\ BuildIdle /\ DedupIdle /\ MemoIdle /\ SubscribeIdle /\ LoopIdle /\ OtIdle

SpecSink == InitSink /\ [][SinkNext]_vars

\* C3: output_table never writes, and subscribe_table with skip_errors never
\* passes to on_data, a tuple that holds Value::Error; no such tuple is even
\* batched or sent to the output thread, and ErrorInOutput has been logged
\* once for each of them. With skip_errors false nothing is logged.
C3_ErrorsNeverReachSinks ==
    /\ sinkKind = "output_table"
          => /\ \A r \in sinkWritten : ~SliceContains(r.values, VError)
             /\ \A i \in DOMAIN sinkQueue : \A r \in sinkQueue[i].data :
                   ~SliceContains(r.values, VError)
    /\ (sinkKind = "subscribe_table" /\ skipErrors)
          => \A r \in sinkOnData : ~SliceContains(r.values, VError)
    /\ (sinkKind = "output_table" \/ skipErrors)
          => /\ \A r \in SinkRows :
                   SliceContains(r.values, VError) => sinkPending[r] = 0
             /\ sinkLogged = sinkErrFed
    /\ (sinkKind = "subscribe_table" /\ ~skipErrors) => sinkLogged = 0

\* C3 witness: output_table was fed a tuple with an error and a tuple
\* without one; the second was written, the first was logged.
C3_Witness ==
    /\ sinkKind = "output_table"
    /\ sinkErrFed >= 1
    /\ sinkLogged = sinkErrFed
    /\ sinkWritten # {}
    /\ sinkQueue = <<>>

(***************************************************************************)
(* update_rows_table, update_cells_table and concat_tables over one        *)
(* original table and one update table.                                    *)
(*                                                                         *)
(* A table is, per key, the multiplicity of each row value: the sum of the *)
(* diffs up to the current time. update_rows_arrange tags the rows of the  *)
(* two tables with MaybeUpdate::Original and MaybeUpdate::Update; the      *)
(* reduce calls the logic for a key whose accumulated input changed and is *)
(* not empty, with the distinct values in ascending order and their        *)
(* multiplicities, and the output of the key becomes what the logic pushed.*)
(***************************************************************************)
NumUpdKeys == 1
MaxMult == 2

UpdKeys == 1..NumUpdKeys

\* the row values of the two tables, each in ascending order of Value
OrigRowSeq == << VTuple(<<VInt(1), VInt(2)>>), VTuple(<<VInt(3), VInt(4)>>) >>
UpdRowSeq == << VTuple(<<VInt(5), VInt(6)>>), VTuple(<<VInt(7), VInt(8)>>) >>

\* <<column_paths, update_paths>>: one-step paths into the row tuples
PathConfigs == { << <<2>>, <<1>> >>, << <<1>>, <<2>> >>,
                 << <<1, 2>>, <<1, 2>> >> }

RECURSIVE SumSeq(_)
SumSeq(q) == IF q = <<>> THEN 0 ELSE Head(q) + SumSeq(Tail(q))

\* ColumnPath::extract for a one-step ValuePath; an Error stays an Error
ColumnPathExtract(path, value) ==
    IF value = VError THEN VError ELSE value[2][path]

\* the input slice of the reduce for one key: MaybeUpdate derives Ord, so
\* the Original entries come before the Update entries
TaggedEntries(tag, rowSeq, mults) ==
    SelectSeq([i \in 1..Len(rowSeq) |->
                  [tag |-> tag, values |-> rowSeq[i], diff |-> mults[i]]],
              LAMBDA e : e.diff # 0)

ReduceInput(origMults, updMults) ==
    TaggedEntries("Original", OrigRowSeq, origMults)
        \o TaggedEntries("Update", UpdRowSeq, updMults)

\* (MaybeUpdate::Original(_), DIFF_INSERTION) and (MaybeUpdate::Update(_),
\* DIFF_INSERTION)
IsOriginalInsertion(e) == e.tag = "Original" /\ e.diff = 1
IsUpdateInsertion(e) == e.tag = "Update" /\ e.diff = 1

UpdateRowsLogicOriginalWins(input) ==
    IF Len(input) = 1 /\ IsOriginalInsertion(input[1])
    THEN [out |-> <<input[1].values>>, log |-> "none"]
    ELSE IF Len(input) = 1 /\ IsUpdateInsertion(input[1])
    THEN [out |-> <<input[1].values>>, log |-> "none"]
    ELSE IF Len(input) = 2 /\ IsOriginalInsertion(input[1])
                           /\ IsUpdateInsertion(input[2])
    THEN [out |-> <<input[1].values>>, log |-> "none"]
    ELSE [out |-> <<>>, log |-> "DuplicateKey"]

\* the logic of update_rows_table's reduce: what it pushes and what it logs
UpdateRowsLogic(input) ==
    IF Len(input) = 1 /\ IsOriginalInsertion(input[1])
    THEN [out |-> <<input[1].values>>, log |-> "none"]
    ELSE IF Len(input) = 1 /\ IsUpdateInsertion(input[1])
    THEN [out |-> <<input[1].values>>, log |-> "none"]
    ELSE IF Len(input) = 2 /\ IsOriginalInsertion(input[1])
                           /\ IsUpdateInsertion(input[2])
    THEN [out |-> <<input[2].values>>, log |-> "none"]
    ELSE [out |-> <<>>, log |-> "DuplicateKey"]

UpdateOnlyErrorDuplicate == "DuplicateKey"

\* the error update_cells_table logs for [(Update(_), DIFF_INSERTION)]
UpdateOnlyError == "UpdatingNonExistingRow"

DuplicateSelectedOriginal(original_values) == original_values

\* the selected values update_cells_table takes for one original entry
\* followed by update entries that are not one insertion
DuplicateSelected(original_values) == VError

CellsResultOfOriginal(original_values, selected_values, selected_paths) ==
    VTuple(<<original_values>>
           \o [i \in 1..Len(selected_paths) |->
                  ColumnPathExtract(selected_paths[i], original_values)])

\* Value::Tuple(chain!([original_values.clone()], updates))
CellsResult(original_values, selected_values, selected_paths) ==
    VTuple(<<original_values>>
           \o [i \in 1..Len(selected_paths) |->
                  ColumnPathExtract(selected_paths[i], selected_values)])

\* the logic of update_cells_table's reduce
UpdateCellsLogic(input, column_paths, update_paths) ==
    IF Len(input) = 1 /\ IsOriginalInsertion(input[1])
    THEN [out |-> <<CellsResult(input[1].values, input[1].values,
                                column_paths)>>,
          log |-> "none"]
    ELSE IF Len(input) = 2 /\ IsOriginalInsertion(input[1])
                           /\ IsUpdateInsertion(input[2])
    THEN [out |-> <<CellsResult(input[1].values, input[2].values,
                                update_paths)>>,
          log |-> "none"]
    ELSE IF Len(input) >= 2 /\ IsOriginalInsertion(input[1])
                            /\ input[2].tag = "Update"
    THEN [out |-> <<CellsResult(input[1].values,
                                DuplicateSelected(input[1].values),
                                update_paths)>>,
          log |-> "DuplicateKey"]
    ELSE IF Len(input) = 1 /\ IsUpdateInsertion(input[1])
    THEN [out |-> <<>>, log |-> UpdateOnlyError]
    ELSE [out |-> <<>>, log |-> "DuplicateKey"]

\* reduce: no call of the logic, and no output, for a key without input
Reduced(input, pushed) ==
    IF input = <<>> THEN [out |-> <<>>, log |-> "none"] ELSE pushed

UpdateInit ==
    /\ origT = [k \in UpdKeys |-> [i \in 1..Len(OrigRowSeq) |-> 0]]
    /\ updT = [k \in UpdKeys |-> [i \in 1..Len(UpdRowSeq) |-> 0]]
    /\ cellPaths \in PathConfigs
    /\ rowsOut = [k \in UpdKeys |-> <<>>]
    /\ rowsLog = [k \in UpdKeys |-> "none"]
    /\ cellsOut = [k \in UpdKeys |-> <<>>]
    /\ cellsLog = [k \in UpdKeys |-> "none"]
    /\ concatOut = [k \in UpdKeys |->
                       [i \in 1..(Len(OrigRowSeq) + Len(UpdRowSeq)) |-> 0]]
    /\ updRemoved = FALSE

\* the rows of key k change to the multiplicities newOrig and newUpd at one
\* time; the three operators take the change
UpdApply(k, newOrig, newUpd) ==
    LET input == ReduceInput(newOrig, newUpd)
        rows == Reduced(input, UpdateRowsLogic(input))
        cells == Reduced(input, UpdateCellsLogic(input, cellPaths[1],
                                                 cellPaths[2]))
    IN  /\ origT' = [origT EXCEPT ![k] = newOrig]
        /\ updT' = [updT EXCEPT ![k] = newUpd]
        /\ rowsOut' = [rowsOut EXCEPT ![k] = rows.out]
        /\ rowsLog' = [rowsLog EXCEPT ![k] = rows.log]
        /\ cellsOut' = [cellsOut EXCEPT ![k] = cells.out]
        /\ cellsLog' = [cellsLog EXCEPT ![k] = cells.log]
        /\ concatOut' = [concatOut EXCEPT ![k] =
              [i \in DOMAIN @ |->
                  IF i <= Len(OrigRowSeq)
                  THEN @[i] + (newOrig[i] - origT[k][i])
                  ELSE @[i] + (newUpd[i - Len(OrigRowSeq)]
                               - updT[k][i - Len(OrigRowSeq)])]]
        /\ updRemoved' = /\ newOrig = origT[k]
                         /\ SumSeq(newOrig) = 1
                         /\ SumSeq(updT[k]) = 1
                         /\ SumSeq(newUpd) = 0
        /\ UNCHANGED cellPaths
        /\ UNCHANGED notUpdate

\* a row is inserted into, or deleted from, the original table
OrigChange(k, i, diff) ==
    /\ cellPaths # <<>>
    /\ origT[k][i] + diff \in 0..MaxMult
    /\ UpdApply(k, [origT[k] EXCEPT ![i] = @ + diff], updT[k])

\* a row is inserted into, or deleted from, the update table
UpdChange(k, i, diff) ==
    /\ cellPaths # <<>>
    /\ updT[k][i] + diff \in 0..MaxMult
    /\ UpdApply(k, origT[k], [updT[k] EXCEPT ![i] = @ + diff])

\* the update row of a key is replaced by another at one time
UpdReplace(k, i, j) ==
    /\ cellPaths # <<>>
    /\ i # j
    /\ updT[k][i] >= 1
    /\ updT[k][j] < MaxMult
    /\ UpdApply(k, origT[k], [updT[k] EXCEPT ![i] = @ - 1, ![j] = @ + 1])

UpdateNext ==
    \/ \E k \in UpdKeys, i \in 1..Len(OrigRowSeq), diff \in {1, -1} :
          OrigChange(k, i, diff)
    \/ \E k \in UpdKeys, i \in 1..Len(UpdRowSeq), diff \in {1, -1} :
          UpdChange(k, i, diff)
    \/ \E k \in UpdKeys, i \in 1..Len(UpdRowSeq), j \in 1..Len(UpdRowSeq) :
          UpdReplace(k, i, j)

InitUpdate ==
    /\ UpdateInit
    /\ DriverIdle /\ SinkIdle /\ StaticIdle /\ ExprIdle /\ IterIdle /\ StreamIdle /\ OutIdle /\ GroupIdle /\ IxIdle /\ JoinIdle /\ ForgetIdle /\ SetIdle /\ LoggerIdle /\ FlushIdle /\ BuildIdle /\ DedupIdle /\ MemoIdle /\ SubscribeIdle /\ LoopIdle /\ OtIdle

SpecUpdate == InitUpdate /\ [][UpdateNext]_vars

\* both input tables are proper sets: each key has at most one row
ProperInputs ==
    \A k \in UpdKeys : SumSeq(origT[k]) <= 1 /\ SumSeq(updT[k]) <= 1

\* C4: with proper-set inputs, every key of the output of concat_tables and
\* of update_rows_table has multiplicity 0 or 1.
C4_OutputsProperSets ==
    ProperInputs =>
        \A k \in UpdKeys :
            /\ SumSeq(concatOut[k]) \in {0, 1}
            /\ Len(rowsOut[k]) \in {0, 1}

\* the rows a key has in the two tables
NumOriginals(k) == SumSeq(origT[k])
NumUpdates(k) == SumSeq(updT[k])
TheOriginal(k) == OrigRowSeq[CHOOSE i \in 1..Len(OrigRowSeq) : origT[k][i] >= 1]
TheUpdate(k) == UpdRowSeq[CHOOSE i \in 1..Len(UpdRowSeq) : updT[k][i] >= 1]

\* update_cells_table's output for key k is one row: the original values,
\* followed by, for each selected path, the cell of `from` at `paths`
CellsOutputIs(k, paths, from) ==
    /\ Len(cellsOut[k]) = 1
    /\ cellsOut[k][1][1] = "Tuple"
    /\ Len(cellsOut[k][1][2]) = 1 + Len(paths)
    /\ cellsOut[k][1][2][1] = TheOriginal(k)
    /\ \A i \in 1..Len(paths) : cellsOut[k][1][2][1 + i] = from[2][paths[i]]

\* update_cells_table's output for key k is one row: the original values,
\* followed by Value::Error for each updated cell
CellsOutputIsErrors(k) ==
    /\ Len(cellsOut[k]) = 1
    /\ cellsOut[k][1][1] = "Tuple"
    /\ Len(cellsOut[k][1][2]) = 1 + Len(cellPaths[2])
    /\ cellsOut[k][1][2][1] = TheOriginal(k)
    /\ \A i \in 1..Len(cellPaths[2]) : cellsOut[k][1][2][1 + i] = VError

\* C6: a key with one original row and no update row outputs the original
\* values; a key with one original row and one update row outputs the
\* update's values (update_cells: the original values with the update's
\* cells at the selected paths); nothing is logged for either; after the
\* deletion of the update row the output is the original values again.
C6_UpdateWins ==
    /\ \A k \in UpdKeys :
          (NumOriginals(k) = 1 /\ NumUpdates(k) = 0)
             => /\ rowsOut[k] = <<TheOriginal(k)>>
                /\ CellsOutputIs(k, cellPaths[1], TheOriginal(k))
                /\ rowsLog[k] = "none" /\ cellsLog[k] = "none"
    /\ \A k \in UpdKeys :
          (NumOriginals(k) = 1 /\ NumUpdates(k) = 1)
             => /\ rowsOut[k] = <<TheUpdate(k)>>
                /\ CellsOutputIs(k, cellPaths[2], TheUpdate(k))
                /\ rowsLog[k] = "none" /\ cellsLog[k] = "none"
    /\ updRemoved
          => \E k \in UpdKeys :
                /\ NumOriginals(k) = 1 /\ NumUpdates(k) = 0
                /\ rowsOut[k] = <<TheOriginal(k)>>
                /\ CellsOutputIs(k, cellPaths[1], TheOriginal(k))

\* C6 witness: the only update row of a key with one original row has just
\* been deleted, and both outputs hold the original values.
C6_Witness ==
    /\ updRemoved
    /\ ProperInputs
    /\ \E k \in UpdKeys :
          /\ NumOriginals(k) = 1 /\ NumUpdates(k) = 0
          /\ rowsOut[k] = <<TheOriginal(k)>>
          /\ CellsOutputIs(k, cellPaths[1], TheOriginal(k))

OtherMultiplicity(k) ==
    /\ NumOriginals(k) + NumUpdates(k) > 0
    /\ ~(NumOriginals(k) = 1 /\ NumUpdates(k) <= 1)
    /\ ~(NumOriginals(k) = 0)

\* C8 as stated: a key with any other multiplicity has no output row in
\* update_rows_table and in update_cells_table, and both log DuplicateKey.
C8_OtherMultiplicityDropped ==
    \A k \in UpdKeys :
        OtherMultiplicity(k)
           => /\ rowsOut[k] = <<>> /\ rowsLog[k] = "DuplicateKey"
              /\ cellsOut[k] = <<>> /\ cellsLog[k] = "DuplicateKey"

\* C8 amended: for a key with any other multiplicity (several updates and
\* no original included) both operators log DuplicateKey;
\* update_rows_table has no output row; update_cells_table has no output
\* row either, unless the key has exactly one original row and more than one
\* update row: then it outputs one row, the original values with
\* Value::Error in the updated cells.
C8_OtherMultiplicity ==
    \A k \in UpdKeys :
        (OtherMultiplicity(k) \/ (NumOriginals(k) = 0 /\ NumUpdates(k) > 1))
           => /\ rowsOut[k] = <<>> /\ rowsLog[k] = "DuplicateKey"
              /\ cellsLog[k] = "DuplicateKey"
              /\ IF NumOriginals(k) = 1 /\ NumUpdates(k) > 1
                 THEN CellsOutputIsErrors(k)
                 ELSE cellsOut[k] = <<>>

\* C8 witness: one original row and two update rows: update_rows_table
\* dropped the key, update_cells_table kept it with errors in the cells.
C8_Witness ==
    \E k \in UpdKeys :
        /\ NumOriginals(k) = 1 /\ NumUpdates(k) = 2
        /\ rowsOut[k] = <<>> /\ rowsLog[k] = "DuplicateKey"
        /\ CellsOutputIsErrors(k) /\ cellsLog[k] = "DuplicateKey"

(***************************************************************************)
(* static_universe, static_column and static_table: every worker is given  *)
(* the same rows and keeps those it owns.                                  *)
(***************************************************************************)
MaxStatKey == 4
MaxStatRows == 2
ShardBits == 2

StatWorkers == 0..(NWorkers - 1)

\* Key::shard_as_usize: the low bits of the key
ShardAsUsize(k) == k % (2 ^ ShardBits)

\* DataRow.shard = None
NoShard == -1

\* the rows of static_table: key, optional shard, diff (the assert of
\* static_table holds for them); values and time play no part in the filter
StatTableRows ==
    [key : 0..MaxStatKey, shard : {NoShard} \cup (0..NWorkers), diff : {1, -1}]

\* the keys of static_universe, and the (key, value) pairs of static_column
StatKeyRows == [key : 0..MaxStatKey, shard : {NoShard}, diff : {1}]

\* the sets of at most n rows
RECURSIVE RowSetsUpTo(_, _)
RowSetsUpTo(rows, n) ==
    IF n = 0 THEN {{}}
    ELSE LET smaller == RowSetsUpTo(rows, n - 1)
         IN  smaller \cup {rs \cup {row} : rs \in smaller, row \in rows}

StatInputs(kind) ==
    RowSetsUpTo(IF kind = "static_table" THEN StatTableRows ELSE StatKeyRows,
                MaxStatRows)

\* the filter of static_universe and of static_column
StaticKeyKeeps(row, worker_count, worker_index) ==
    ShardAsUsize(row.key) % worker_count = worker_index

StaticTableKeepsByKey(row, worker_count, worker_index) ==
    ShardAsUsize(row.key) % worker_count = worker_index

\* the filter of static_table
StaticTableKeeps(row, worker_count, worker_index) ==
    (IF row.shard # NoShard THEN row.shard ELSE ShardAsUsize(row.key))
        % worker_count = worker_index

StaticInit ==
    /\ statKind \in {"static_universe", "static_column", "static_table"}
    /\ statRows \in StatInputs(statKind)
    /\ statEmit = [w \in StatWorkers |-> {}]
    /\ statDone = [w \in StatWorkers |-> FALSE]

\* worker w builds the operator: it filters the rows and streams its own
StaticBuild(w) ==
    /\ statKind # "idle"
    /\ ~statDone[w]
    /\ statEmit' = [statEmit EXCEPT ![w] =
          {row \in statRows :
              IF statKind = "static_table"
              THEN StaticTableKeeps(row, NWorkers, w)
              ELSE StaticKeyKeeps(row, NWorkers, w)}]
    /\ statDone' = [statDone EXCEPT ![w] = TRUE]
    /\ UNCHANGED <<statKind, statRows>>
    /\ UNCHANGED notStatic

StaticNext == \E w \in StatWorkers : StaticBuild(w)

InitStatic ==
    /\ StaticInit
    /\ DriverIdle /\ SinkIdle /\ UpdateIdle /\ ExprIdle /\ IterIdle /\ StreamIdle /\ OutIdle /\ GroupIdle /\ IxIdle /\ JoinIdle /\ ForgetIdle /\ SetIdle /\ LoggerIdle /\ FlushIdle /\ BuildIdle /\ DedupIdle /\ MemoIdle /\ SubscribeIdle /\ LoopIdle /\ OtIdle

SpecStatic == InitStatic /\ [][StaticNext]_vars

\* every input row is in the stream of exactly one worker, once all workers
\* have built the operator, and never in the streams of two
EmittedByExactlyOne ==
    /\ \A w \in StatWorkers : statEmit[w] \subseteq statRows
    /\ \A w1, w2 \in StatWorkers :
          w1 # w2 => statEmit[w1] \cap statEmit[w2] = {}
    /\ (\A w \in StatWorkers : statDone[w])
          => \A row \in statRows : \E w \in StatWorkers : row \in statEmit[w]

\* C5 as stated: every input row is emitted by exactly one worker, and the
\* index of that worker is the shard of the row's key modulo the number of
\* workers, for static_table rows with a shard of their own too.
C5_KeyShardOwnership ==
    /\ EmittedByExactlyOne
    /\ \A w \in StatWorkers : \A row \in statEmit[w] :
          ShardAsUsize(row.key) % NWorkers = w

\* C5 amended: every input row is emitted by exactly one worker; the index
\* of that worker is the shard of the row's key modulo the number of
\* workers, except for a static_table row with a shard of its own, where it
\* is that shard modulo the number of workers.
C5_ShardOwnership ==
    /\ EmittedByExactlyOne
    /\ \A w \in StatWorkers : \A row \in statEmit[w] :
          IF row.shard = NoShard
          THEN ShardAsUsize(row.key) % NWorkers = w
          ELSE row.shard % NWorkers = w

\* C5 witness: all workers have built static_table; a row with a shard of
\* its own was emitted by the worker of that shard, which is not the worker
\* of its key, and a row without one by the worker of its key.
C5_Witness ==
    /\ statKind = "static_table"
    /\ \A w \in StatWorkers : statDone[w]
    /\ \E w \in StatWorkers : \E row \in statEmit[w] :
          /\ row.shard # NoShard
          /\ row.shard % NWorkers = w
          /\ ShardAsUsize(row.key) % NWorkers # w
    /\ \E w \in StatWorkers : \E row \in statEmit[w] :
          /\ row.shard = NoShard
          /\ ShardAsUsize(row.key) % NWorkers = w

(***************************************************************************)
(* expression_table_non_deterministic with one expression.                 *)
(*                                                                         *)
(* A step is one call of the closure given to                              *)
(* flat_map_named_with_deletions_first: it gets the rows of one batch,     *)
(* deletions first, looks every row up in the cache, evaluates the         *)
(* expression for the rows that missed, fills the cache, and returns one   *)
(* result per row, which is emitted with the diff of the row. A batch      *)
(* holds, per key, an insertion, a deletion of a present row, or both.     *)
(***************************************************************************)
NumExprKeys == 1
MaxExprValue == 2
MaxExprSteps == 3

ExprKeys == 1..NumExprKeys

\* no entry in the HashMap, no value emitted yet
NoValue == -1

\* Value::Error, what unwrap_or_log_with_trace puts for a failed evaluation
ErrorValue == 0

\* what expression.eval can give for a row of a non-deterministic expression
EvalResults == {ErrorValue} \cup (1..MaxExprValue)

\* what expression.eval gives for a row of a deterministic expression
DetResult(k) == 1

\* the changes of one key in a batch
KeyChanges == {"none", "ins", "del", "replace"}

RECURSIVE RowsOf(_, _, _)
\* the rows with the given diff, in key order
RowsOf(choice, diff, k) ==
    IF k > NumExprKeys THEN <<>>
    ELSE (IF \/ (diff = 1 /\ choice[k] \in {"ins", "replace"})
             \/ (diff = -1 /\ choice[k] \in {"del", "replace"})
          THEN <<[key |-> k, diff |-> diff]>> ELSE <<>>)
         \o RowsOf(choice, diff, k + 1)

\* flat_map_named_with_deletions_first: the deletions come before the
\* insertions
DeletionsFirst(choice) == RowsOf(choice, -1, 1) \o RowsOf(choice, 1, 1)

CacheGetNothing(cache, k) == NoValue

\* caches[i].get(&row.key)
CacheGet(cache, k) == cache[k]

CacheLookupKeep(cache, k) == cache

\* caches[i].remove(&row.key) leaves no entry for the key
CacheLookupRemove(cache, k) == [cache EXCEPT ![k] = NoValue]

RECURSIVE LookupPass(_, _, _, _, _)
\* the loop over the rows: the cache lookups. Gives the cache after the
\* loop, a record per row, and the error of report_and_panic_with_trace
LookupPass(mode, rows, cache, before, recs) ==
    IF rows = <<>> THEN [cache |-> cache, recs |-> recs, error |-> "none"]
    ELSE LET row == Head(rows)
             miss == [key |-> row.key, diff |-> row.diff, value |-> NoValue,
                      computed |-> TRUE, hit |-> FALSE,
                      before |-> before[row.key]]
             found == [key |-> row.key, diff |-> row.diff,
                       value |-> cache[row.key], computed |-> FALSE,
                       hit |-> TRUE, before |-> before[row.key]]
         IN  IF mode = "deterministic"
             THEN LookupPass(mode, Tail(rows), cache, before,
                             Append(recs, miss))
             ELSE IF mode = "append_only"
             THEN IF CacheGet(cache, row.key) # NoValue
                  THEN LookupPass(mode, Tail(rows), cache, before,
                                  Append(recs, found))
                  ELSE LookupPass(mode, Tail(rows), cache, before,
                                  Append(recs, miss))
             ELSE IF cache[row.key] # NoValue
                  THEN IF row.diff # -1
                       THEN [cache |-> CacheLookupRemove(cache, row.key),
                             recs |-> Append(recs, found),
                             error |-> "ExpectedDeletion"]
                       ELSE LookupPass(mode, Tail(rows),
                                       CacheLookupRemove(cache, row.key),
                                       before, Append(recs, found))
                  ELSE LookupPass(mode, Tail(rows), cache, before,
                                  Append(recs, miss))

RECURSIVE EvalPass(_, _, _, _, _)
\* the evaluation of the rows that missed, and the filling of the cache:
\* vals[i] is what expression.eval gives for the i-th row of the batch
EvalPass(mode, recs, cache, vals, i) ==
    IF i > Len(recs) THEN [cache |-> cache, recs |-> recs, error |-> "none"]
    ELSE IF ~recs[i].computed
    THEN EvalPass(mode, recs, cache, vals, i + 1)
    ELSE IF mode = "deterministic"
    THEN EvalPass(mode, [recs EXCEPT ![i].value = DetResult(recs[i].key)],
                  cache, vals, i + 1)
    ELSE IF cache[recs[i].key] # NoValue
    THEN [cache |-> [cache EXCEPT ![recs[i].key] = vals[i]],
          recs |-> [recs EXCEPT ![i].value = vals[i]],
          error |-> "assert"]
    ELSE EvalPass(mode, [recs EXCEPT ![i].value = vals[i]],
                  [cache EXCEPT ![recs[i].key] = vals[i]], vals, i + 1)

\* the rows of key k the expression was evaluated for
EvaluatedRows(recs, k) ==
    SelectSeq(recs, LAMBDA r : r.key = k /\ r.computed /\ r.value # NoValue)

\* the insertion rows of key k
InsertedRows(recs, k) ==
    SelectSeq(recs, LAMBDA r : r.key = k /\ r.diff = 1)

ExprInit ==
    /\ exprMode \in {"deterministic", "append_only", "general"}
    /\ exprPresent = [k \in ExprKeys |-> 0]
    /\ exprCache = [k \in ExprKeys |-> NoValue]
    /\ exprBatch = <<>>
    /\ exprEvals = [k \in ExprKeys |-> 0]
    /\ exprFirst = [k \in ExprKeys |-> NoValue]
    /\ exprLastIns = [k \in ExprKeys |-> NoValue]
    /\ exprError = "none"
    /\ exprSteps = 0
    /\ exprRestarted = "no"

\* one batch goes through the closure, after a number of batches that is in
\* `within`
ExprBatchWithin(choice, within) ==
    /\ exprMode # "idle"
    /\ exprError = "none"
    /\ exprSteps \in within
    /\ \E k \in ExprKeys : choice[k] # "none"
    /\ \A k \in ExprKeys :
          /\ choice[k] \in {"del", "replace"} => exprPresent[k] >= 1
          /\ choice[k] = "ins" => exprPresent[k] < MaxMult
    /\ \E looked \in {LookupPass(exprMode, DeletionsFirst(choice), exprCache,
                                 exprLastIns, <<>>)} :
       \E vals \in [IF looked.error # "none" THEN {}
                    ELSE {i \in 1..Len(looked.recs) : looked.recs[i].computed}
                    -> EvalResults] :
       \E done \in {IF looked.error # "none" THEN looked
                    ELSE EvalPass(exprMode, looked.recs, looked.cache,
                                  vals, 1)} :
          LET evaluated(k) == EvaluatedRows(done.recs, k)
              inserted(k) == InsertedRows(done.recs, k)
          IN  /\ exprCache' = done.cache
              /\ exprBatch' = done.recs
              /\ exprError' = done.error
              /\ exprEvals' = [k \in ExprKeys |->
                                  exprEvals[k] + Len(evaluated(k))]
              /\ exprFirst' = [k \in ExprKeys |->
                    IF exprFirst[k] = NoValue /\ evaluated(k) # <<>>
                    THEN evaluated(k)[1].value ELSE exprFirst[k]]
              /\ exprLastIns' = [k \in ExprKeys |->
                    IF done.error = "none" /\ inserted(k) # <<>>
                    THEN inserted(k)[1].value ELSE exprLastIns[k]]
    /\ exprPresent' = [k \in ExprKeys |->
          CASE choice[k] = "ins" -> exprPresent[k] + 1
            [] choice[k] = "del" -> exprPresent[k] - 1
            [] OTHER -> exprPresent[k]]
    /\ exprSteps' = exprSteps + 1
    /\ exprRestarted' = IF exprRestarted = "no" THEN "no" ELSE "resumed"
    /\ UNCHANGED exprMode
    /\ UNCHANGED notExpr

\* one batch goes through the closure
ExprBatch(choice) == ExprBatchWithin(choice, 0 .. MaxExprSteps - 1)

ExprNext == \E choice \in [ExprKeys -> KeyChanges] : ExprBatch(choice)

InitExpr ==
    /\ ExprInit
    /\ DriverIdle /\ SinkIdle /\ StaticIdle /\ UpdateIdle /\ IterIdle /\ StreamIdle /\ OutIdle /\ GroupIdle /\ IxIdle /\ JoinIdle /\ ForgetIdle /\ SetIdle /\ LoggerIdle /\ FlushIdle /\ BuildIdle /\ DedupIdle /\ MemoIdle /\ SubscribeIdle /\ LoopIdle /\ OtIdle

SpecExpr == InitExpr /\ [][ExprNext]_vars

\* the number of insertion rows of key k in the last batch
InsertionsIn(recs, k) == Len(InsertedRows(recs, k))

\* the last row of key k in the last batch is a deletion
EndsWithDeletion(recs, k) ==
    LET mine == SelectSeq(recs, LAMBDA r : r.key = k)
    IN  mine # <<>> /\ mine[Len(mine)].diff = -1

\* C9: for a non-deterministic expression that is not append_only, a
\* deletion of key k is a cache hit that emits the value emitted with the
\* preceding insertion of k, without evaluating the expression; the
\* deletion leaves no cache entry for k; the expression is evaluated for
\* every insertion, and only for insertions, so a re-insertion gets a fresh
\* value; and ExpectedDeletion is reported exactly when a row whose diff is
\* not -1 hits the cache.
C9_DeletionReusesCachedValue ==
    /\ [](exprMode = "general" =>
            /\ exprError \in {"none", "ExpectedDeletion"}
            /\ exprError = "none" =>
                  /\ \A i \in DOMAIN exprBatch :
                        exprBatch[i].diff = -1
                           => /\ exprBatch[i].hit
                              /\ ~exprBatch[i].computed
                              /\ exprBatch[i].before # NoValue
                              /\ exprBatch[i].value = exprBatch[i].before
                  /\ \A i \in DOMAIN exprBatch :
                        exprBatch[i].diff = 1
                           => exprBatch[i].computed /\ ~exprBatch[i].hit
                  /\ \A k \in ExprKeys :
                        EndsWithDeletion(exprBatch, k)
                           => exprCache[k] = NoValue
            /\ exprError = "ExpectedDeletion" <=>
                  \E i \in DOMAIN exprBatch :
                      exprBatch[i].hit /\ exprBatch[i].diff # -1)
    /\ [][(exprMode = "general" /\ exprError' = "none") =>
            \A k \in ExprKeys :
                exprEvals'[k] = exprEvals[k] + InsertionsIn(exprBatch', k)]_vars

\* C9 witness: a batch replaced the row of a key: its deletion emitted the
\* value of the earlier insertion, and its insertion was evaluated afresh
\* and got another value.
C9_Witness ==
    /\ exprMode = "general"
    /\ exprError = "none"
    /\ Len(exprBatch) = 2
    /\ exprBatch[1].key = exprBatch[2].key
    /\ exprBatch[1].diff = -1
    /\ exprBatch[1].hit
    /\ exprBatch[1].value = exprBatch[1].before
    /\ exprBatch[2].diff = 1
    /\ exprBatch[2].computed
    /\ exprBatch[2].value # exprBatch[1].value
    /\ exprEvals[exprBatch[1].key] = 2
    /\ exprCache[exprBatch[1].key] = exprBatch[2].value

PersistedStates ==
    [k \in ExprKeys |-> IF exprPresent[k] >= 1 THEN exprLastIns[k] ELSE NoValue]

\* the loop over the OldOrNew::Old entries: caches[j].insert(key, state) for
\* a non-deterministic expression, into the empty caches of the new run
PrimedCache(mode, states) ==
    [k \in ExprKeys |-> IF mode = "deterministic" THEN NoValue ELSE states[k]]

\* the replayed insertions, and the insertions of the keys in fresh
ReplayChoice(fresh) ==
    [k \in ExprKeys |-> IF exprPresent[k] >= 1 \/ k \in fresh
                        THEN "ins" ELSE "none"]

\* the first batch after a restart goes through the closure
ExprRestart(fresh) ==
    /\ exprMode # "idle"
    /\ exprRestarted = "no"
    /\ exprError = "none"
    /\ exprSteps < MaxExprSteps
    /\ \A k \in ExprKeys : exprPresent[k] <= 1
    /\ \E k \in ExprKeys : exprPresent[k] = 1
    /\ \A k \in fresh : exprPresent[k] = 0
    /\ \E looked \in {LookupPass(exprMode, DeletionsFirst(ReplayChoice(fresh)),
                                 PrimedCache(exprMode, PersistedStates),
                                 PersistedStates, <<>>)} :
       \E vals \in [IF looked.error # "none" THEN {}
                    ELSE {i \in 1..Len(looked.recs) : looked.recs[i].computed}
                    -> EvalResults] :
       \E done \in {IF looked.error # "none" THEN looked
                    ELSE EvalPass(exprMode, looked.recs, looked.cache,
                                  vals, 1)} :
          /\ exprCache' = done.cache
          /\ exprBatch' = done.recs
          /\ exprError' = done.error
          /\ exprEvals' = [k \in ExprKeys |->
                exprEvals[k] + Len(EvaluatedRows(done.recs, k))]
          /\ exprFirst' = [k \in ExprKeys |->
                IF exprFirst[k] = NoValue /\ EvaluatedRows(done.recs, k) # <<>>
                THEN EvaluatedRows(done.recs, k)[1].value ELSE exprFirst[k]]
          /\ exprLastIns' = [k \in ExprKeys |->
                IF done.error = "none" /\ InsertedRows(done.recs, k) # <<>>
                THEN InsertedRows(done.recs, k)[1].value ELSE exprLastIns[k]]
    /\ exprPresent' = [k \in ExprKeys |->
                          IF k \in fresh THEN 1 ELSE exprPresent[k]]
    /\ exprSteps' = exprSteps + 1
    /\ exprRestarted' = "replay"
    /\ UNCHANGED exprMode
    /\ UNCHANGED notExpr

ExprRestartNext ==
    \/ \E choice \in [ExprKeys -> KeyChanges] : ExprBatch(choice)
    \/ \E fresh \in SUBSET ExprKeys : ExprRestart(fresh)

SpecExprRestart == InitExpr /\ [][ExprRestartNext]_vars

\* C11: in the batch that replays the input after a restart, a
\* non-deterministic expression raises no error, every key seen before the
\* restart is emitted with the value it had before, without an evaluation,
\* and the expression is evaluated for the keys not seen before only.
C11_ReplayReusesValues ==
    (exprRestarted = "replay" /\ exprMode \in {"append_only", "general"})
       => /\ exprError = "none"
          /\ \A i \in DOMAIN exprBatch :
                IF exprBatch[i].before # NoValue
                THEN /\ exprBatch[i].hit /\ ~exprBatch[i].computed
                     /\ exprBatch[i].value = exprBatch[i].before
                ELSE exprBatch[i].computed


(***************************************************************************)
(* iterate.  One table with one column is iterated; its rows are the       *)
(* values 0..MaxItValue.  The subscope's collections are kept as update    *)
(* records [round, data, diff], round being the inner coordinate of the    *)
(* product timestamp.                                                      *)
(***************************************************************************)
MaxItValue == 2
MaxItLimit == 3

ItData == 0..MaxItValue

\* limit: Option<u32> is None
NoLimit == -1

ItLimits == {NoLimit} \cup (0..MaxItLimit)

\* what the logic closure hands back: the right number of tables or not
LogicResults == {"ok", "LengthMismatch"}

\* the iteration body the logic closure builds: every row moves one step
\* towards MaxItValue and stays there
Body(x) == IF x < MaxItValue THEN x + 1 ELSE x

BodyOf(rows) == {Body(x) : x \in rows}

\* the update of row d at round r in a collection, 0 if there is none
DiffAt(updates, r, d) ==
    IF \E u \in updates : u.round = r /\ u.data = d
    THEN (CHOOSE u \in updates : u.round = r /\ u.data = d).diff
    ELSE 0

RECURSIVE Accumulated(_, _, _)
Accumulated(updates, r, d) ==
    IF r < 0 THEN 0
    ELSE DiffAt(updates, r, d) + Accumulated(updates, r - 1, d)

\* the rows a collection holds at round r
RowsAt(updates, r) == {d \in ItData : Accumulated(updates, r, d) > 0}

\* the updates that turn the rows `old` into the rows `new` at round r
UpdatesBetween(old, new, r) ==
    {[round |-> r, data |-> d, diff |-> 1] : d \in new \ old}
        \cup {[round |-> r, data |-> d, diff |-> -1] : d \in old \ new}

LimitTooSmallZeroOnly(limit) == limit = 0

\* if let Some(v) = limit { if v <= 1 { return Err(IterationLimitTooSmall) } }
LimitTooSmall(limit) == limit # NoLimit /\ limit <= 1

\* AfterIterate::apply_limit: keep the updates with time.inner < limit - 1
ApplyLimit(limit, updates) ==
    IF limit # NoLimit
    THEN {u \in updates : u.round < limit - 1}
    ELSE updates

\* Variable::set: the updates fed back are source.negate() concatenated with
\* the result, moved one round later by the step
FedBack(source, fed, r) ==
    LET net(d) == (IF r = 0 /\ d \in source THEN -1 ELSE 0) + DiffAt(fed, r, d)
    IN {[round |-> r + 1, data |-> d, diff |-> net(d)] :
            d \in {x \in ItData : net(x) # 0}}

IterInit ==
    /\ itPc = "idle"
    /\ itLimit = NoLimit
    /\ itInput = {}
    /\ itVar = {}
    /\ itVal = {}
    /\ itRound = 0
    /\ itScopes = 0
    /\ itTables = 0
    /\ itResult = {}
    /\ itErr = "none"

\* iterate is called: the limit is checked, the subscope and its tables are
\* created, and the logic closure builds the body
IterateCall(limit, input, logic) ==
    /\ itPc = "idle"
    /\ itLimit' = limit
    /\ itInput' = input
    /\ IF LimitTooSmall(limit)
       THEN /\ itErr' = "IterationLimitTooSmall"
            /\ itPc' = "failed"
            /\ UNCHANGED <<itVar, itScopes, itTables>>
       ELSE /\ itScopes' = itScopes + 1
            /\ itTables' = itTables + 1
            /\ IF logic = "ok"
               THEN /\ itVar' = {[round |-> 0, data |-> d, diff |-> 1] : d \in input}
                    /\ itPc' = "running"
                    /\ itErr' = "none"
               ELSE /\ itVar' = {}
                    /\ itPc' = "failed"
                    /\ itErr' = logic
    /\ UNCHANGED <<itVal, itRound, itResult>>
    /\ UNCHANGED notIter

\* one round of the subscope: the body runs on the variable's rows, its
\* result changes, and the changes that pass apply_limit are fed back
IterRound ==
    /\ itPc = "running"
    /\ \E u \in itVar : u.round = itRound
    /\ LET now == BodyOf(RowsAt(itVar, itRound))
           before == RowsAt(itVal, itRound - 1)
           changes == UpdatesBetween(before, now, itRound)
       IN /\ itVal' = itVal \cup changes
          /\ itVar' = itVar \cup FedBack(itInput, ApplyLimit(itLimit, changes), itRound)
    /\ itRound' = itRound + 1
    /\ UNCHANGED <<itPc, itLimit, itInput, itScopes, itTables, itResult, itErr>>
    /\ UNCHANGED notIter

\* nothing is left to do in the subscope: values.leave() hands the result's
\* rows to the outer scope
IterLeave ==
    /\ itPc = "running"
    /\ ~ \E u \in itVar : u.round = itRound
    /\ itResult' = RowsAt(itVal, itRound)
    /\ itPc' = "done"
    /\ UNCHANGED <<itLimit, itInput, itVar, itVal, itRound, itScopes, itTables, itErr>>
    /\ UNCHANGED notIter

IterNext ==
    \/ \E limit \in ItLimits, input \in SUBSET ItData, logic \in LogicResults :
          IterateCall(limit, input, logic)
    \/ IterRound
    \/ IterLeave

InitIter ==
    /\ IterInit
    /\ DriverIdle /\ SinkIdle /\ StaticIdle /\ UpdateIdle /\ ExprIdle /\ StreamIdle /\ OutIdle /\ GroupIdle /\ IxIdle /\ JoinIdle /\ ForgetIdle /\ SetIdle /\ LoggerIdle /\ FlushIdle /\ BuildIdle /\ DedupIdle /\ MemoIdle /\ SubscribeIdle /\ LoopIdle /\ OtIdle

SpecIter == InitIter /\ [][IterNext]_vars

\* C12: iterate with limit = 2 applies the body exactly once, so the table it
\* returns holds body(input); with limit = n the body runs in at most n - 1
\* rounds.
C12_LimitTwoAppliesBodyOnce ==
    /\ (itPc = "done" /\ itLimit = 2) => itResult = BodyOf(itInput)
    /\ (itPc = "done" /\ itLimit # NoLimit) => itRound <= itLimit - 1

\* C13: iterate called with limit 0 or 1 returns IterationLimitTooSmall and
\* has created no subscope, table or column by then; called with no limit or
\* a limit of at least 2 it never returns this error.
C13_LimitTooSmall ==
    itPc # "idle" =>
        IF itLimit \in {0, 1}
        THEN /\ itPc = "failed"
             /\ itErr = "IterationLimitTooSmall"
             /\ itScopes = 0 /\ itTables = 0 /\ itVar = {} /\ itVal = {}
        ELSE itErr # "IterationLimitTooSmall"

C13_Witness ==
    itPc = "failed" /\ itLimit = 1 /\ itErr = "IterationLimitTooSmall"


(***************************************************************************)
(* table_to_stream and stream_to_table.  T is a table with proper keys;    *)
(* a batch changes some of its rows at one time.  The stream made from T   *)
(* is turned back into a table by stream_to_table.                         *)
(***************************************************************************)
NumStKeys == 2
MaxStValue == 2
MaxStTime == 3

StKeys == 1..NumStKeys

DIFF_INSERTION == 1
DIFF_DELETION == -1

VBool(b) == <<"Bool", b>>

\* the key holds no row
NoRow == <<"None">>

StValues == {VInt(n) : n \in 1..MaxStValue}

StTables == [StKeys -> StValues \cup {NoRow}]

\* the consolidated changes that turn the table `old` into the table `new`
ConsolidatedChanges(old, new) ==
    {[key |-> k, values |-> new[k], diff |-> DIFF_INSERTION] :
        k \in {x \in StKeys : new[x] # old[x] /\ new[x] # NoRow}}
    \cup {[key |-> k, values |-> old[k], diff |-> DIFF_DELETION] :
        k \in {x \in StKeys : new[x] # old[x] /\ old[x] # NoRow}}

\* the changes of one key ordered by -diff
KeySorted(changes, k) ==
    (IF \E c \in changes : c.key = k /\ c.diff = DIFF_INSERTION
     THEN <<CHOOSE c \in changes : c.key = k /\ c.diff = DIFF_INSERTION>>
     ELSE <<>>)
    \o (IF \E c \in changes : c.key = k /\ c.diff = DIFF_DELETION
        THEN <<CHOOSE c \in changes : c.key = k /\ c.diff = DIFF_DELETION>>
        ELSE <<>>)

\* data.sort_by_key(|&((key, ref _values), diff)| (key, -diff))
RECURSIVE SortByKeyDiff(_, _)
SortByKeyDiff(changes, k) ==
    IF k > NumStKeys THEN <<>>
    ELSE KeySorted(changes, k) \o SortByKeyDiff(changes, k + 1)

\* no key yet: previous_key = None
NoKey == 0

SkipRepeatedKeyNever(key, previous) == FALSE

\* if Some(key) == previous_key { continue; }
SkipRepeatedKey(key, previous) == key = previous

\* the loop of table_to_stream's flat_map over the sorted batch
RECURSIVE StreamRows(_, _, _, _)
StreamRows(data, i, previous, time) ==
    IF i > Len(data) THEN <<>>
    ELSE IF SkipRepeatedKey(data[i].key, previous)
         THEN StreamRows(data, i + 1, previous, time)
         ELSE (IF data[i].diff \in {DIFF_INSERTION, DIFF_DELETION}
               THEN <<[key |-> data[i].key,
                       values |-> VTuple(<<data[i].values,
                                           VBool(data[i].diff = DIFF_INSERTION)>>),
                       time |-> time,
                       diff |-> DIFF_INSERTION]>>
               ELSE <<>>)
              \o StreamRows(data, i + 1, data[i].key, time)

TableToStream(changes, time) ==
    StreamRows(SortByKeyDiff(changes, 1), 1, NoKey, time)

UpsertDiffAlwaysInsertion(value) == DIFF_INSERTION

\* stream_to_table: new_diff from the is_upsert column of the row
UpsertDiff(value) ==
    IF ColumnPathExtract(2, value)[2] THEN DIFF_INSERTION ELSE DIFF_DELETION

\* stream_to_table's flat_map followed by the upsert session: a row of diff
\* +1 sets the key's value or removes the key; other rows are dropped
RECURSIVE Upserted(_, _, _)
Upserted(table, rows, i) ==
    IF i > Len(rows) THEN table
    ELSE IF rows[i].diff = DIFF_INSERTION
         THEN Upserted([table EXCEPT ![rows[i].key] =
                           IF UpsertDiff(rows[i].values) = DIFF_INSERTION
                           THEN rows[i].values
                           ELSE NoRow],
                       rows, i + 1)
         ELSE Upserted(table, rows, i + 1)

StreamInit ==
    /\ stT = [k \in StKeys |-> NoRow]
    /\ stTime = 0
    /\ stIn = {}
    /\ stOut = <<>>
    /\ stBack = [k \in StKeys |-> NoRow]

\* a batch at the next time turns T into `new`
StreamBatch(new) ==
    /\ stTime < MaxStTime
    /\ new # stT
    /\ stT' = new
    /\ stTime' = stTime + 1
    /\ stIn' = ConsolidatedChanges(stT, new)
    /\ stOut' = TableToStream(stIn', stTime')
    /\ stBack' = Upserted(stBack, stOut', 1)
    /\ UNCHANGED notStream

StreamNext == \E new \in StTables : StreamBatch(new)

InitStream ==
    /\ StreamInit
    /\ DriverIdle /\ SinkIdle /\ StaticIdle /\ UpdateIdle /\ ExprIdle /\ IterIdle /\ OutIdle /\ GroupIdle /\ IxIdle /\ JoinIdle /\ ForgetIdle /\ SetIdle /\ LoggerIdle /\ FlushIdle /\ BuildIdle /\ DedupIdle /\ MemoIdle /\ SubscribeIdle /\ LoopIdle /\ OtIdle

SpecStream == InitStream /\ [][StreamNext]_vars

\* the rows table_to_stream emitted for a change
RowsFor(c) ==
    {i \in DOMAIN stOut :
        /\ stOut[i].key = c.key
        /\ stOut[i].values = VTuple(<<c.values, VBool(c.diff = DIFF_INSERTION)>>)}

IsUpsertRow(i) == stOut[i].values[2][2] = VBool(TRUE)

\* C14 as stated: every consolidated change of diff +1 or -1 at time t has
\* exactly one output row at t with diff +1, is_upsert telling insertion from
\* deletion (an in-place update gives two rows), and the rows from insertions
\* precede the rows from deletions.
C14_OneRowPerChange ==
    /\ \A c \in stIn : Cardinality(RowsFor(c)) = 1
    /\ Len(stOut) = Cardinality(stIn)
    /\ \A i, j \in DOMAIN stOut :
          (IsUpsertRow(i) /\ ~IsUpsertRow(j)) => i < j

\* C14: table_to_stream emits exactly one row at t, with diff +1, for every
\* key changed at t: the key's insertion with is_upsert = true if the key has
\* one (the deletion of an in-place update is skipped), else the key's
\* deletion with is_upsert = false; the rows are in key order.
C14_OneRowPerKey ==
    /\ \A i \in DOMAIN stOut : stOut[i].time = stTime /\ stOut[i].diff = DIFF_INSERTION
    /\ \A i, j \in DOMAIN stOut : i < j => stOut[i].key < stOut[j].key
    /\ \A k \in StKeys :
          (\E c \in stIn : c.key = k) <=> (\E i \in DOMAIN stOut : stOut[i].key = k)
    /\ \A c \in stIn :
          IF c.diff = DIFF_INSERTION
          THEN Cardinality(RowsFor(c)) = 1
          ELSE Cardinality(RowsFor(c)) =
                  (IF \E d \in stIn : d.key = c.key /\ d.diff = DIFF_INSERTION
                   THEN 0 ELSE 1)

\* an in-place update of a key and a deletion of a smaller key at one time
C14_Witness ==
    /\ \E c, d \in stIn : c.key = d.key /\ c.diff # d.diff
    /\ \E i, j \in DOMAIN stOut : i < j /\ ~IsUpsertRow(i) /\ IsUpsertRow(j)

\* C15 as stated: stream_to_table(table_to_stream(T)) holds exactly the rows
\* of T, same keys and same values.
C15_RoundTripIdentity == stBack = stT

\* C15: stream_to_table(table_to_stream(T)) holds one row for every key of T
\* and no other; the row's value is the stream row, the pair of T's value and
\* is_upsert = true.
C15_RoundTripKeepsFlag ==
    \A k \in StKeys :
        stBack[k] = IF stT[k] = NoRow THEN NoRow
                    ELSE VTuple(<<stT[k], VBool(TRUE)>>)

\* a key's value was updated in place, another key was deleted
C15_Witness ==
    /\ \E c, d \in stIn : c.key = d.key /\ c.diff # d.diff
    /\ \E k \in StKeys : stT[k] = NoRow /\ (\E c \in stIn : c.key = k)
    /\ \E k \in StKeys : stBack[k] # NoRow


(***************************************************************************)
(* The output thread of output_table: the dataflow sends OutputEvents to   *)
(* a channel, the thread receives them, writes the rows of every batch to  *)
(* the sink and handles the commits.                                       *)
(***************************************************************************)
MaxOutEvents == 3
MaxOutRows == 1

OUTPUT_RETRIES == 5

\* Commit(None)
NoTime == -1

BatchEvent(t, n, p) == [event |-> "Batch", time |-> t, rows |-> n, persisted |-> p]
CommitEvent(t) == [event |-> "Commit", time |-> t, rows |-> 0, persisted |-> FALSE]

\* the outcomes of one run of the closure given to execute_with_retries
AttemptResults == {"ok", "format_error", "write_error"}

\* the outcomes of data_sink.flush
FlushResults == {"ok", "flush_error"}

RetriesAlways(retriable) == OUTPUT_RETRIES

\* let retries = if data_sink.retriable() { OUTPUT_RETRIES } else { 1 };
Retries(retriable) == IF retriable THEN OUTPUT_RETRIES ELSE 1

\* if time.is_from_persistence() && worker_persistent_storage.is_some()
SkipsEntries(ev, persist) == ev.persisted /\ persist

AfterFailureContinues(pc) == "recv"

\* the ? operator: an Err leaves the thread's loop
AfterFailure(pc) == "err"

OutInit ==
    /\ outRetriable \in BOOLEAN
    /\ outPersist \in BOOLEAN
    /\ outLog = <<>>
    /\ outNext = 0
    /\ outSender = "open"
    /\ outTime = 0
    /\ outPc = "recv"
    /\ outRowLog = <<>>
    /\ outWritten = {}
    /\ outFlushed = {}
    /\ outFinalized = <<>>
    /\ outCommits = 0
    /\ outErr = "none"

outThread == <<outNext, outPc, outRowLog, outWritten, outFlushed, outFinalized,
               outCommits, outErr>>

\* sender.send: fails once the thread has ended and dropped the receiver
OutSend(ev, sender) ==
    /\ outSender = "open"
    /\ Len(outLog) < MaxOutEvents
    /\ IF outPc \in {"ok", "err"}
       THEN /\ outSender' = "panicked"
            /\ UNCHANGED <<outLog, outTime>>
       ELSE /\ outLog' = Append(outLog, ev)
            /\ outSender' = sender
            /\ outTime' = IF ev.event = "Commit" /\ ev.time # NoTime
                          THEN ev.time ELSE outTime
    /\ UNCHANGED <<outRetriable, outPersist, outThread>>
    /\ UNCHANGED notOut

\* inspect_core, Ok((_time, batches)): a batch of the current time is sent
OutSendBatch(n, p) == OutSend(BatchEvent(outTime, n, p), "open")

\* inspect_core, Err(frontier): the frontier has advanced
OutSendCommit == OutSend(CommitEvent(outTime + 1), "open")

\* inspect_core, Err(frontier) with the empty frontier
OutSendFinal == OutSend(CommitEvent(NoTime), "final")

\* the dataflow is dropped, and the sender with it
OutDropSender ==
    /\ outSender \in {"open", "final"}
    /\ outSender' = "dropped"
    /\ UNCHANGED <<outRetriable, outPersist, outLog, outTime, outThread>>
    /\ UNCHANGED notOut

\* receiver.recv() gives Ok(OutputEvent::Batch(batch)): output_batch starts
OutRecvBatch ==
    /\ outPc = "recv"
    /\ outNext < Len(outLog)
    /\ outLog[outNext + 1].event = "Batch"
    /\ outNext' = outNext + 1
    /\ outRowLog' = <<>>
    /\ outPc' = IF SkipsEntries(outLog[outNext + 1], outPersist) THEN "flush" ELSE "write"
    /\ UNCHANGED <<outRetriable, outPersist, outLog, outSender, outTime, outWritten,
                   outFlushed, outFinalized, outCommits, outErr>>
    /\ UNCHANGED notOut

\* one run of the closure of execute_with_retries for the current row:
\* format, then write
OutAttempt(res) ==
    /\ outPc = "write"
    /\ LET ev == outLog[outNext]
           fresh == outRowLog = <<>> \/ outRowLog[Len(outRowLog)].written >= 1
           log == IF fresh THEN Append(outRowLog, [attempts |-> 0, written |-> 0])
                  ELSE outRowLog
           i == Len(log)
           attempts == log[i].attempts + 1
       IN IF res = "ok"
          THEN /\ outRowLog' = [log EXCEPT ![i] =
                                   [attempts |-> attempts, written |-> @.written + 1]]
               /\ outWritten' = outWritten \cup {<<outNext, i>>}
               /\ outPc' = IF i = ev.rows THEN "flush" ELSE "write"
               /\ UNCHANGED outErr
          ELSE /\ outRowLog' = [log EXCEPT ![i] =
                                   [attempts |-> attempts, written |-> @.written]]
               /\ UNCHANGED outWritten
               /\ IF attempts < Retries(outRetriable)
                  THEN UNCHANGED <<outPc, outErr>>
                  ELSE /\ outPc' = AfterFailure(outPc)
                       /\ outErr' = res
    /\ UNCHANGED <<outRetriable, outPersist, outLog, outNext, outSender, outTime,
                   outFlushed, outFinalized, outCommits>>
    /\ UNCHANGED notOut

\* the end of output_batch: data_sink.flush(false)
OutBatchFlush(res) ==
    /\ outPc = "flush"
    /\ IF res = "ok"
       THEN /\ outFlushed' = outFlushed \cup {outNext}
            /\ outPc' = "recv"
            /\ UNCHANGED outErr
       ELSE /\ outPc' = AfterFailure(outPc)
            /\ outErr' = res
            /\ UNCHANGED outFlushed
    /\ UNCHANGED <<outRetriable, outPersist, outLog, outNext, outSender, outTime,
                   outRowLog, outWritten, outFinalized, outCommits>>
    /\ UNCHANGED notOut

\* receiver.recv() gives Ok(OutputEvent::Commit(t)): commit_output_time, then
\* data_sink.flush(t.is_none()), then the thread ends if t is None
OutRecvCommit(res) ==
    /\ outPc = "recv"
    /\ outNext < Len(outLog)
    /\ outLog[outNext + 1].event = "Commit"
    /\ outNext' = outNext + 1
    /\ outFinalized' = IF outPersist
                       THEN Append(outFinalized, outLog[outNext + 1].time)
                       ELSE outFinalized
    /\ outCommits' = outCommits + 1
    /\ IF res = "ok"
       THEN /\ outPc' = IF outLog[outNext + 1].time = NoTime THEN "ok" ELSE "recv"
            /\ UNCHANGED outErr
       ELSE /\ outPc' = AfterFailure(outPc)
            /\ outErr' = res
    /\ UNCHANGED <<outRetriable, outPersist, outLog, outSender, outTime, outRowLog,
                   outWritten, outFlushed>>
    /\ UNCHANGED notOut

\* receiver.recv() gives Err(mpsc::RecvError): the sender is gone and the
\* channel is empty
OutRecvClosed ==
    /\ outPc = "recv"
    /\ outNext = Len(outLog)
    /\ outSender = "dropped"
    /\ outPc' = "ok"
    /\ UNCHANGED <<outRetriable, outPersist, outLog, outNext, outSender, outTime,
                   outRowLog, outWritten, outFlushed, outFinalized, outCommits, outErr>>
    /\ UNCHANGED notOut

OutNext ==
    \/ \E n \in 1..MaxOutRows, p \in BOOLEAN : (p => outPersist) /\ OutSendBatch(n, p)
    \/ OutSendCommit
    \/ OutSendFinal
    \/ OutDropSender
    \/ OutRecvBatch
    \/ \E res \in AttemptResults : OutAttempt(res)
    \/ \E res \in FlushResults : OutBatchFlush(res)
    \/ \E res \in FlushResults : OutRecvCommit(res)
    \/ OutRecvClosed

InitOut ==
    /\ OutInit
    /\ DriverIdle /\ SinkIdle /\ StaticIdle /\ UpdateIdle /\ ExprIdle /\ IterIdle /\ StreamIdle /\ GroupIdle /\ IxIdle /\ JoinIdle /\ ForgetIdle /\ SetIdle /\ LoggerIdle /\ FlushIdle /\ BuildIdle /\ DedupIdle /\ MemoIdle /\ SubscribeIdle /\ LoopIdle /\ OtIdle

SpecOut == InitOut /\ [][OutNext]_vars

\* C16: every row's format-and-write is attempted at most OUTPUT_RETRIES
\* times for a retriable sink and exactly once for a sink that is not; a row
\* is written at most once; and after a failed last attempt the thread has
\* stopped with that error reported and does nothing more: no later row,
\* batch or commit is handled.
C16_BoundedAttempts ==
    /\ [](\A i \in DOMAIN outRowLog :
            /\ outRowLog[i].attempts >= 1
            /\ outRowLog[i].attempts <= (IF outRetriable THEN 5 ELSE 1)
            /\ outRowLog[i].written <= 1
            /\ (outRowLog[i].written = 0
                  /\ outRowLog[i].attempts = (IF outRetriable THEN 5 ELSE 1))
               => /\ i = Len(outRowLog)
                  /\ outPc = "err"
                  /\ outErr \in {"format_error", "write_error"})
    /\ [][outPc = "err" => UNCHANGED outThread]_vars

\* the fifth attempt of a row failed after an earlier row was written
C16_Witness ==
    /\ outRetriable
    /\ outPc = "err"
    /\ outRowLog # <<>>
    /\ outRowLog[Len(outRowLog)] = [attempts |-> 5, written |-> 0]
    /\ outWritten # {}
    /\ outNext < Len(outLog)

\* the batch at position i of the channel has been written and flushed
BatchDone(i) ==
    /\ i \in outFlushed
    /\ \/ SkipsEntries(outLog[i], outPersist)
       \/ \A r \in 1..outLog[i].rows : <<i, r>> \in outWritten

\* C17: the events are handled in channel order: when the commit at a
\* position of the channel has been handled (and its time recorded), every
\* batch sent before it has been written and flushed; the finalized times
\* recorded never decrease; and the thread ends normally only after
\* Commit(None) or once the channel is closed and empty, with every event sent
\* before handled.
C17_CommitsInOrder ==
    /\ \A j \in 1..outNext :
          outLog[j].event = "Commit" =>
             \A i \in 1..(j - 1) : outLog[i].event = "Batch" => BatchDone(i)
    /\ outPersist => Len(outFinalized) = outCommits
    /\ \A a, b \in DOMAIN outFinalized :
          a < b => /\ outFinalized[a] # NoTime
                   /\ outFinalized[b] # NoTime => outFinalized[a] <= outFinalized[b]
    /\ outPc = "ok" =>
          /\ outNext = Len(outLog)
          /\ \/ outNext >= 1 /\ outLog[outNext] = CommitEvent(NoTime)
             \/ outSender = "dropped"

\* a batch was written, a time was recorded for it, and the thread ended
\* after Commit(None)
C17_Witness ==
    /\ outPc = "ok"
    /\ Len(outFinalized) = 2
    /\ outFinalized[1] # NoTime
    /\ outFinalized[2] = NoTime
    /\ outWritten # {}


(***************************************************************************)
(* group_by_table.  All rows of the input table fall into one group; every *)
(* reducer has one argument column, whose value is an integer or           *)
(* Value::Error, and skip_errors is off.  A table that only grows is       *)
(* reduced by all reducers; a table whose rows also change and leave is    *)
(* reduced by those that accept deletions.                                 *)
(***************************************************************************)
NumGrpKeys == 2
NumSelKeys == 3
MaxGrpValue == 2
MaxGrpTime == 3

\* the source keys of the input table
GrpKeys(mode) == IF mode = "append_only" THEN 1..NumSelKeys ELSE 1..NumGrpKeys

GrpValues == {VInt(n) : n \in 1..MaxGrpValue} \cup {VError}

GrpReducers == {"int_sum", "count", "min", "stateful", "earliest", "latest"}

\* Reducer::Stateful, Reducer::Earliest and Reducer::Latest take insertions only
AppendOnlyReducers == {"stateful", "earliest", "latest"}

PresentKeys(rows) == {k \in DOMAIN rows : rows[k] # NoRow}

\* the rows that enter (diff +1) and leave (diff -1) the group when its rows
\* change from `old` to `new`
GrpChanges(old, new) ==
    {[key |-> k, values |-> new[k], diff |-> DIFF_INSERTION] :
        k \in {x \in DOMAIN new : new[x] # old[x] /\ new[x] # NoRow}}
    \cup {[key |-> k, values |-> old[k], diff |-> DIFF_DELETION] :
        k \in {x \in DOMAIN old : new[x] # old[x] /\ old[x] # NoRow}}

SetMin(s) == CHOOSE x \in s : \A y \in s : x <= y
SetMax(s) == CHOOSE x \in s : \A y \in s : x >= y

\* ---- SemigroupReducer<IntSumState> ----
ZeroState == [sum |-> 0, errors |-> 0]

\* ErrorStateWrapper::init and init_error
SemigroupInit(value) ==
    IF value = VError THEN [sum |-> 0, errors |-> 1]
    ELSE [sum |-> value[2], errors |-> 0]

MultiplyIgnoresSign(state, diff) == state

\* Multiply<isize>: the state taken diff times
Multiply(state, diff) == [sum |-> state.sum * diff, errors |-> state.errors * diff]

\* Semigroup::plus_equals
PlusEquals(a, b) == [sum |-> a.sum + b.sum, errors |-> a.errors + b.errors]

\* explode and count: the states of all changes are added to the group's
RECURSIVE Counted(_, _)
Counted(state, changes) ==
    IF changes = {} THEN state
    ELSE LET c == CHOOSE x \in changes : TRUE
         IN Counted(PlusEquals(state, Multiply(SemigroupInit(c.values), c.diff)),
                    changes \ {c})

\* count keeps no row for a zero state; finish gives the sum or Value::Error
SemigroupFinish(state) ==
    IF state = ZeroState THEN NoRow
    ELSE IF state.errors > 0 THEN VError
    ELSE VInt(state.sum)

\* ---- CountReducer ----
CountReduce(rows) ==
    IF PresentKeys(rows) = {} THEN NoRow ELSE VInt(Cardinality(PresentKeys(rows)))

\* ---- a ReducerImpl: MinReducer ----
ReducerImplReduce(rows) ==
    IF PresentKeys(rows) = {} THEN NoRow
    ELSE IF \E k \in PresentKeys(rows) : rows[k] = VError THEN VError
    ELSE VInt(SetMin({rows[k][2] : k \in PresentKeys(rows)}))

\* ---- StatefulReducer, with a combine_fn that adds up what it gets ----
RECURSIVE BatchSum(_)
BatchSum(batch) ==
    IF batch = {} THEN 0
    ELSE LET c == CHOOSE x \in batch : TRUE
         IN c.values[2] + BatchSum(batch \ {c})

StatefulLogic(state, batch) ==
    IF state = VError \/ \E c \in batch : c.values = VError
    THEN VError
    ELSE VInt((IF state = NoRow THEN 0 ELSE state[2]) + BatchSum(batch))

\* ---- LatestReducer ----
LatestLogic(state, batch) ==
    (CHOOSE c \in batch : c.key = SetMax({x.key : x \in batch})).values

EarliestLogicIgnoresState(state, batch) ==
    (CHOOSE c \in batch : c.key = SetMin({x.key : x \in batch})).values

\* ---- EarliestReducer ----
EarliestLogic(state, batch) ==
    IF state # NoRow THEN state
    ELSE (CHOOSE c \in batch : c.key = SetMin({x.key : x \in batch})).values

\* the changes of an output column whose row for the group goes from `old`
\* to `new`
OutputChanges(old, new) ==
    IF old = new THEN {}
    ELSE (IF old = NoRow THEN {} ELSE {[value |-> old, diff |-> DIFF_DELETION]})
         \cup (IF new = NoRow THEN {} ELSE {[value |-> new, diff |-> DIFF_INSERTION]})

GroupInit(mode) ==
    /\ grpMode = mode
    /\ grpRows = [k \in GrpKeys(mode) |-> NoRow]
    /\ grpTime = 0
    /\ grpSumState = ZeroState
    /\ grpOut = [r \in GrpReducers |-> NoRow]
    /\ grpEmit = {}
    /\ grpFirst = {}
    /\ grpLast = {}

\* a batch at the next time turns the rows of the group into `new`
GroupBatch(new) ==
    /\ grpTime < MaxGrpTime
    /\ new # grpRows
    /\ grpMode = "append_only" => \A k \in PresentKeys(grpRows) : new[k] = grpRows[k]
    /\ LET changes == GrpChanges(grpRows, new)
           state == Counted(grpSumState, changes)
           stateful == grpMode = "append_only"
       IN /\ grpSumState' = state
          /\ grpOut' =
                [r \in GrpReducers |->
                    CASE r = "int_sum" -> SemigroupFinish(state)
                      [] r = "count" -> CountReduce(new)
                      [] r = "min" -> ReducerImplReduce(new)
                      [] r = "stateful" ->
                           IF stateful THEN StatefulLogic(grpOut[r], changes) ELSE NoRow
                      [] r = "earliest" ->
                           IF stateful THEN EarliestLogic(grpOut[r], changes) ELSE NoRow
                      [] r = "latest" ->
                           IF stateful THEN LatestLogic(grpOut[r], changes) ELSE NoRow]
          /\ grpEmit' = OutputChanges(grpOut["int_sum"], SemigroupFinish(state))
          /\ grpFirst' = IF stateful /\ grpFirst = {} THEN {c.key : c \in changes}
                         ELSE grpFirst
          /\ grpLast' = IF stateful THEN {c.key : c \in changes} ELSE grpLast
    /\ grpRows' = new
    /\ grpTime' = grpTime + 1
    /\ UNCHANGED grpMode
    /\ UNCHANGED notGroup

GroupNext == \E new \in [GrpKeys(grpMode) -> GrpValues \cup {NoRow}] : GroupBatch(new)

InitGroup ==
    /\ GroupInit("general")
    /\ DriverIdle /\ SinkIdle /\ StaticIdle /\ UpdateIdle /\ ExprIdle /\ IterIdle /\ StreamIdle /\ OutIdle /\ IxIdle /\ JoinIdle /\ ForgetIdle /\ SetIdle /\ LoggerIdle /\ FlushIdle /\ BuildIdle /\ DedupIdle /\ MemoIdle /\ SubscribeIdle /\ LoopIdle /\ OtIdle

SpecGroup == InitGroup /\ [][GroupNext]_vars

InitSelect ==
    /\ GroupInit("append_only")
    /\ DriverIdle /\ SinkIdle /\ StaticIdle /\ UpdateIdle /\ ExprIdle /\ IterIdle /\ StreamIdle /\ OutIdle /\ IxIdle /\ JoinIdle /\ ForgetIdle /\ SetIdle /\ LoggerIdle /\ FlushIdle /\ BuildIdle /\ DedupIdle /\ MemoIdle /\ SubscribeIdle /\ LoopIdle /\ OtIdle

SpecSelect == InitSelect /\ [][GroupNext]_vars

\* the reducers that look at an argument column; Reducer::Count is given none
WithArgument == GrpReducers \ {"count"}

HasErrorRow == \E k \in PresentKeys(grpRows) : grpRows[k] = VError

\* C18: whenever a row of the group holds Value::Error in a reducer's
\* argument column, the reducer's output for the group is Value::Error, for
\* every reducer of group_by_table.
C18_ErrorTaintsEveryReducer ==
    HasErrorRow =>
        \A r \in WithArgument :
            (grpMode = "append_only" \/ r \notin AppendOnlyReducers) => grpOut[r] = VError


\* the sum over the rows present, NoRow for an empty group, Value::Error if
\* a row holds it
RECURSIVE RowSum(_, _)
RowSum(rows, keys) ==
    IF keys = {} THEN 0
    ELSE LET k == CHOOSE x \in keys : TRUE
         IN rows[k][2] + RowSum(rows, keys \ {k})

SumOfGroup(rows) ==
    IF PresentKeys(rows) = {} THEN NoRow
    ELSE IF \E k \in PresentKeys(rows) : rows[k] = VError THEN VError
    ELSE VInt(RowSum(rows, PresentKeys(rows)))

\* C19: with the integer sum reducer the output holds at every time one row
\* for the group if it is not empty, carrying the sum over the rows present,
\* and no row if it is empty; when a batch changes the sum, -1 of the old
\* value and +1 of the new value are emitted at that time, and only the -1
\* when the group became empty.
C19_IntSumFollowsRows ==
    /\ [](grpMode = "general" => grpOut["int_sum"] = SumOfGroup(grpRows))
    /\ [][grpMode = "general" =>
            grpEmit' =
              IF SumOfGroup(grpRows) = SumOfGroup(grpRows') THEN {}
              ELSE (IF SumOfGroup(grpRows) = NoRow THEN {}
                    ELSE {[value |-> SumOfGroup(grpRows), diff |-> -1]})
                   \cup (IF SumOfGroup(grpRows') = NoRow THEN {}
                         ELSE {[value |-> SumOfGroup(grpRows'), diff |-> 1]})]_vars

\* a batch with a deletion changed the sum from one integer to another
C19_Witness ==
    /\ grpMode = "general"
    /\ \E e, f \in grpEmit :
          /\ e.diff = -1 /\ f.diff = 1
          /\ e.value # VError /\ f.value # VError
          /\ f.value[2] < e.value[2]

\* C20 as stated: Earliest gives the value of the row with the minimum source
\* key of all rows inserted so far, Latest that of the maximum source key.
C20_EarliestLatestByKey ==
    (grpMode = "append_only" /\ PresentKeys(grpRows) # {}) =>
        /\ grpOut["earliest"] = grpRows[SetMin(PresentKeys(grpRows))]
        /\ grpOut["latest"] = grpRows[SetMax(PresentKeys(grpRows))]

\* C20: Earliest gives the value of the row with the minimum source key among
\* the rows of the group's first batch, Latest the value of the row with the
\* maximum source key among the rows of the group's last batch.
C20_EarliestLatestByBatch ==
    (grpMode = "append_only" /\ PresentKeys(grpRows) # {}) =>
        /\ grpOut["earliest"] = grpRows[SetMin(grpFirst)]
        /\ grpOut["latest"] = grpRows[SetMax(grpLast)]

\* the last batch did not bring the largest key, nor the first the smallest
C20_Witness ==
    /\ grpMode = "append_only"
    /\ grpTime >= 2
    /\ SetMax(grpLast) # SetMax(PresentKeys(grpRows))
    /\ SetMin(grpFirst) # SetMin(PresentKeys(grpRows))
    /\ grpOut["earliest"] # grpRows[SetMin(PresentKeys(grpRows))]
    /\ grpOut["latest"] # grpRows[SetMax(PresentKeys(grpRows))]


(***************************************************************************)
(* ix_table.  The key table has one column, the lookup value: Value::None  *)
(* or a pointer to a key of the indexed table.  The row of the indexed     *)
(* table with key s holds VInt(s).                                         *)
(***************************************************************************)
NumIxKeys == 2

IxKeys == 1..NumIxKeys

IxPolicies == {"FailMissing", "SkipMissing", "ForwardNone"}

\* Value::None
VNone == <<"NoneValue">>

VPointer(s) == <<"Pointer", s>>

IxLookups == {VPointer(s) : s \in IxKeys} \cup {VNone}

\* values_to_keys: the rows of the key table that are looked up; FailMissing
\* unwraps every lookup value as a pointer, the other policies skip Value::None
ValuesToKeys(policy, keyT) ==
    {k \in IxKeys : keyT[k] # NoRow /\ (policy = "FailMissing" \/ keyT[k] # VNone)}

\* join_core of values_to_keys with the indexed table
IxJoined(policy, keyT, src) ==
    {[key |-> k,
      values |-> IF policy = "SkipMissing" THEN VInt(keyT[k][2])
                 ELSE VTuple(<<keyT[k], VInt(keyT[k][2])>>)] :
        k \in {x \in ValuesToKeys(policy, keyT) : keyT[x] # VNone /\ keyT[x][2] \in src}}

\* none_keys of the ForwardNone policy
NoneKeys(policy, keyT) ==
    IF policy = "ForwardNone"
    THEN {[key |-> k, values |-> VTuple(<<keyT[k], VNone>>)] :
            k \in {x \in IxKeys : keyT[x] = VNone}}
    ELSE {}

\* leftover_values of make_output_keys_match_input_keys: the rows of the key
\* table without an output row
Leftover(keyT, out) ==
    {k \in IxKeys : keyT[k] # NoRow /\ ~ \E r \in out : r.key = k /\ r.values[2][1] = keyT[k]}

MatchesInputKeysFailMissingOnly(policy) == policy = "FailMissing"

\* if ix_key_policy == IxKeyPolicy::SkipMissing { new_table } else { ... }
MatchesInputKeys(policy) == policy # "SkipMissing"

\* the table ix_table gives for the tables keyT and src
IxTable(policy, keyT, src) ==
    LET new_table == IxJoined(policy, keyT, src) \cup NoneKeys(policy, keyT)
    IN IF MatchesInputKeys(policy)
       THEN new_table \cup
            {[key |-> k, values |-> VTuple(<<keyT[k], VError>>)] :
                k \in Leftover(keyT, new_table)}
       ELSE new_table

IxInit ==
    /\ ixPolicy \in IxPolicies
    /\ ixKeyT = [k \in IxKeys |-> NoRow]
    /\ ixSrc = {}
    /\ ixOut = {}
    /\ ixLog = {}
    /\ ixErr = "none"

\* a batch changes the key table and the indexed table
IxStep(keyT, src) ==
    /\ ixErr = "none"
    /\ ixKeyT' = keyT
    /\ ixSrc' = src
    /\ IF ixPolicy = "FailMissing" /\ \E k \in IxKeys : keyT[k] = VNone /\ ixKeyT[k] # VNone
       THEN /\ ixErr' = "ValueError"
            /\ UNCHANGED <<ixOut, ixLog>>
       ELSE /\ ixErr' = "none"
            /\ ixOut' = IxTable(ixPolicy, keyT, src)
            /\ ixLog' = IF MatchesInputKeys(ixPolicy)
                        THEN {r.key : r \in {x \in ixOut' \ ixOut : x.values[2][2] = VError}}
                             \cup {r.key : r \in {x \in ixOut \ ixOut' : x.values[2][2] = VError}}
                        ELSE {}
    /\ UNCHANGED ixPolicy
    /\ UNCHANGED notIx

\* one row of the key table is inserted, changed or deleted
IxKeyChange(k, v) ==
    /\ v # ixKeyT[k]
    /\ IxStep([ixKeyT EXCEPT ![k] = v], ixSrc)

\* one row of the indexed table is inserted or deleted
IxSrcChange(s) ==
    IxStep(ixKeyT, IF s \in ixSrc THEN ixSrc \ {s} ELSE ixSrc \cup {s})

IxNext ==
    \/ \E k \in IxKeys, v \in IxLookups \cup {NoRow} : IxKeyChange(k, v)
    \/ \E s \in IxKeys : IxSrcChange(s)

InitIx ==
    /\ IxInit
    /\ DriverIdle /\ SinkIdle /\ StaticIdle /\ UpdateIdle /\ ExprIdle /\ IterIdle /\ StreamIdle /\ OutIdle /\ GroupIdle /\ JoinIdle /\ ForgetIdle /\ SetIdle /\ LoggerIdle /\ FlushIdle /\ BuildIdle /\ DedupIdle /\ MemoIdle /\ SubscribeIdle /\ LoopIdle /\ OtIdle

SpecIx == InitIx /\ [][IxNext]_vars

IxRowsOf(k) == {r \in ixOut : r.key = k}

\* C21 as stated: with ForwardNone a row whose lookup value is None gives one
\* output row pairing its values with None, a row whose pointer matches a row
\* of the indexed table gives the pair with that row, and a row whose pointer
\* matches no row gives no output row.
C21_ForwardNoneDropsMissing ==
    ixPolicy = "ForwardNone" =>
        \A k \in IxKeys :
            IxRowsOf(k) =
                IF ixKeyT[k] = NoRow THEN {}
                ELSE IF ixKeyT[k] = VNone
                     THEN {[key |-> k, values |-> VTuple(<<VNone, VNone>>)]}
                ELSE IF ixKeyT[k][2] \in ixSrc
                     THEN {[key |-> k, values |-> VTuple(<<ixKeyT[k], VInt(ixKeyT[k][2])>>)]}
                ELSE {}

\* C21: with ForwardNone every row of the key table gives exactly one output
\* row: its values paired with None if the lookup value is None, with the
\* matching row of the indexed table if there is one, and with Value::Error
\* if the pointer matches no row.
C21_ForwardNoneOneRowPerKey ==
    ixPolicy = "ForwardNone" =>
        \A k \in IxKeys :
            IxRowsOf(k) =
                IF ixKeyT[k] = NoRow THEN {}
                ELSE IF ixKeyT[k] = VNone
                     THEN {[key |-> k, values |-> VTuple(<<VNone, VNone>>)]}
                ELSE IF ixKeyT[k][2] \in ixSrc
                     THEN {[key |-> k, values |-> VTuple(<<ixKeyT[k], VInt(ixKeyT[k][2])>>)]}
                ELSE {[key |-> k, values |-> VTuple(<<ixKeyT[k], VError>>)]}

\* a None row and a row whose pointer matches nothing, just logged
C21_Witness ==
    /\ ixPolicy = "ForwardNone"
    /\ \E k \in IxKeys : ixKeyT[k] = VNone
    /\ \E k \in IxKeys :
          /\ ixKeyT[k] \notin {NoRow, VNone}
          /\ ixKeyT[k][2] \notin ixSrc
          /\ k \in ixLog


(***************************************************************************)
(* join_tables.  Both tables have one column, the join column, holding an  *)
(* integer or Value::Error.  A result key is the pair of the keys it was   *)
(* made from (NoKey for Value::None), or the left key alone for the        *)
(* LeftKeysFull and LeftKeysSubset joins.                                  *)
(***************************************************************************)
NumJoinKeys == 2

JoinKeys == 1..NumJoinKeys

JoinTypes == {"Inner", "LeftOuter", "RightOuter", "FullOuter", "LeftKeysFull",
              "LeftKeysSubset"}

JoinColumnValues == {VInt(1), VInt(2), VError}

\* join_key is None
NoJoinKey == <<"NoJoinKey">>

ExtractJoinKeyKeepsError(value) == value

\* extract_join_key: None for a row whose join column holds Value::Error
ExtractJoinKey(value) == IF value = VError THEN NoJoinKey ELSE value

Rows(table) == {k \in JoinKeys : table[k] # NoRow}

\* join_core of join_left_arranged and join_right_arranged
JoinLeftRight(left, right) ==
    {<<l, r>> \in Rows(left) \X Rows(right) :
        /\ ExtractJoinKey(left[l]) # NoJoinKey
        /\ ExtractJoinKey(left[l]) = ExtractJoinKey(right[r])}

IsLeftKeys(type) == type \in {"LeftKeysFull", "LeftKeysSubset"}

\* join_left_right_to_result_fn and the keys of the outer rows
ResultKey(type, l, r) == IF IsLeftKeys(type) THEN <<l>> ELSE <<l, r>>

JoinedRow(type, left, right, l, r) ==
    [key |-> ResultKey(type, l, r),
     values |-> VTuple(<<VPointer(l), left[l], VPointer(r), right[r]>>),
     diff |-> DIFF_INSERTION]

HasLeftOuterNoFull(type) == type \in {"LeftOuter", "LeftKeysFull"}

\* result_left_outer is Some
HasLeftOuter(type) == type \in {"LeftOuter", "FullOuter", "LeftKeysFull"}

\* result_right_outer is Some
HasRightOuter(type) == type \in {"RightOuter", "FullOuter"}

DistinctKeepsCount(n) == n

\* distinct: every row that is there is there once
Distinct(n) == IF n > 0 THEN 1 ELSE 0

Matches(left, right, l, r) ==
    /\ left[l] # NoRow /\ right[r] # NoRow
    /\ ExtractJoinKey(left[l]) # NoJoinKey
    /\ ExtractJoinKey(left[l]) = ExtractJoinKey(right[r])

MatchesOfLeft(left, right, l) == {r \in JoinKeys : Matches(left, right, l, r)}
MatchesOfRight(left, right, r) == {l \in JoinKeys : Matches(left, right, l, r)}

\* left_with_join_key minus the distinct matched left rows, padded
LeftOuterRows(type, left, right) ==
    {[key |-> ResultKey(type, l, NoKey),
      values |-> VTuple(<<VPointer(l), left[l], VNone, VNone>>),
      diff |-> 1 - Distinct(Cardinality(MatchesOfLeft(left, right, l)))] :
        l \in {x \in Rows(left) :
                 1 - Distinct(Cardinality(MatchesOfLeft(left, right, x))) # 0}}

\* right_with_join_key minus the distinct matched right rows, padded
RightOuterRows(left, right) ==
    {[key |-> <<NoKey, r>>,
      values |-> VTuple(<<VNone, VNone, VPointer(r), right[r]>>),
      diff |-> 1 - Distinct(Cardinality(MatchesOfRight(left, right, r)))] :
        r \in {x \in Rows(right) :
                 1 - Distinct(Cardinality(MatchesOfRight(left, right, x))) # 0}}

ResultLeftRight(type, left, right) ==
    {JoinedRow(type, left, right, m[1], m[2]) : m \in JoinLeftRight(left, right)}
    \cup (IF HasLeftOuter(type) THEN LeftOuterRows(type, left, right) ELSE {})
    \cup (IF HasRightOuter(type) THEN RightOuterRows(left, right) ELSE {})

\* the input of the reduce of replace_duplicates_with_error for a key
Group(rows, k) == {r \in rows : r.key = k}

\* the keys whose input is anything but [(value, DIFF_INSERTION)]
DuplicateKeys(rows) ==
    {k \in {r.key : r \in rows} :
        ~ \E r \in rows : Group(rows, k) = {r} /\ r.diff = DIFF_INSERTION}

ReplaceDuplicatesKeepsOne(rows) ==
    {CHOOSE r \in rows : r.key = k : k \in {x.key : x \in rows}}

\* replace_duplicates_with_error with the error_logic of join_tables
ReplaceDuplicatesWithError(rows) ==
    {r \in rows : r.key \notin DuplicateKeys(rows)}
    \cup {[key |-> k,
           values |-> LET one == CHOOSE r \in rows : r.key = k
                      IN VTuple(<<one.values[2][1], one.values[2][2], VError, VError>>),
           diff |-> DIFF_INSERTION] :
            k \in DuplicateKeys(rows)}

\* the rows the batch brings or takes away whose join column holds an error
ErroredChanges(old, new) ==
    {k \in JoinKeys : old[k] # new[k] /\ (old[k] = VError \/ new[k] = VError)}

JoinInit ==
    /\ joinType \in JoinTypes
    /\ joinLeft = [k \in JoinKeys |-> NoRow]
    /\ joinRight = [k \in JoinKeys |-> NoRow]
    /\ joinOut = {}
    /\ joinLog = {}

\* the entries of the log about rows that are still there after the batch
StillConcerned(log, left, right, after) ==
    {e \in log :
        \/ e.side = "left" /\ left[e.key[1]] = VError
        \/ e.side = "right" /\ right[e.key[1]] = VError
        \/ e.side = "result" /\ e.key \in DuplicateKeys(after)}

\* a batch changes the tables to left and right
JoinStep(left, right) ==
    \E before \in {ResultLeftRight(joinType, joinLeft, joinRight)},
       after \in {ResultLeftRight(joinType, left, right)} :
        /\ joinLeft' = left
        /\ joinRight' = right
        /\ joinOut' = IF IsLeftKeys(joinType) THEN ReplaceDuplicatesWithError(after)
                                              ELSE after
        /\ joinLog' =
              StillConcerned(
                  joinLog
                  \cup {[error |-> "ErrorInJoin", side |-> "left", key |-> <<k>>] :
                      k \in ErroredChanges(joinLeft, left)}
                  \cup {[error |-> "ErrorInJoin", side |-> "right", key |-> <<k>>] :
                      k \in ErroredChanges(joinRight, right)}
                  \cup (IF IsLeftKeys(joinType)
                        THEN {[error |-> "DuplicateKey", side |-> "result", key |-> k] :
                                k \in {x \in DuplicateKeys(after) :
                                         Group(after, x) # Group(before, x)}}
                        ELSE {}),
                  left, right, after)
        /\ UNCHANGED joinType
        /\ UNCHANGED notJoin

JoinLeftChange(k, v) ==
    /\ v # joinLeft[k]
    /\ JoinStep([joinLeft EXCEPT ![k] = v], joinRight)

JoinRightChange(k, v) ==
    /\ v # joinRight[k]
    /\ JoinStep(joinLeft, [joinRight EXCEPT ![k] = v])

JoinNext ==
    \/ \E k \in JoinKeys, v \in JoinColumnValues \cup {NoRow} : JoinLeftChange(k, v)
    \/ \E k \in JoinKeys, v \in JoinColumnValues \cup {NoRow} : JoinRightChange(k, v)

InitJoin ==
    /\ JoinInit
    /\ DriverIdle /\ SinkIdle /\ StaticIdle /\ UpdateIdle /\ ExprIdle /\ IterIdle /\ StreamIdle /\ OutIdle /\ GroupIdle /\ IxIdle /\ ForgetIdle /\ SetIdle /\ LoggerIdle /\ FlushIdle /\ BuildIdle /\ DedupIdle /\ MemoIdle /\ SubscribeIdle /\ LoopIdle /\ OtIdle

SpecJoin == InitJoin /\ [][JoinNext]_vars

\* the result rows made from the left row l, from the right row r
RowsWithLeft(l) == {x \in joinOut : x.values[2][1] = VPointer(l)}
RowsWithRight(r) == {x \in joinOut : x.values[2][3] = VPointer(r)}

ErrorInJoinLogged(side, k) ==
    [error |-> "ErrorInJoin", side |-> side, key |-> <<k>>] \in joinLog

\* C22 as stated, its half about the result: for every join type a row whose
\* join column holds Value::Error appears in no result row.
C22_ErroredRowsDropped ==
    /\ \A l \in JoinKeys : joinLeft[l] = VError => RowsWithLeft(l) = {}
    /\ \A r \in JoinKeys : joinRight[r] = VError => RowsWithRight(r) = {}

\* the rows of an outer side that found no match: padded with Value::None
PaddedLeft(l) ==
    {[key |-> ResultKey(joinType, l, NoKey),
      values |-> VTuple(<<VPointer(l), joinLeft[l], VNone, VNone>>),
      diff |-> DIFF_INSERTION]}
PaddedRight(r) ==
    {[key |-> <<NoKey, r>>,
      values |-> VTuple(<<VNone, VNone, VPointer(r), joinRight[r]>>),
      diff |-> DIFF_INSERTION]}

\* C22: for every join type a row whose join column holds Value::Error is
\* matched with no row of the other table and ErrorInJoin is logged for it;
\* it appears in no result row unless its side is an outer side of the join,
\* where it appears once, padded with Value::None.
C22_ErroredRowsNeverMatched ==
    /\ \A l \in JoinKeys : joinLeft[l] = VError =>
          /\ ErrorInJoinLogged("left", l)
          /\ RowsWithLeft(l) = IF HasLeftOuter(joinType) THEN PaddedLeft(l) ELSE {}
    /\ \A r \in JoinKeys : joinRight[r] = VError =>
          /\ ErrorInJoinLogged("right", r)
          /\ RowsWithRight(r) = IF HasRightOuter(joinType) THEN PaddedRight(r) ELSE {}

\* an errored left row of a full outer join, just logged and padded, next to
\* a matched pair and an errored right row
C22_Witness ==
    /\ joinType = "FullOuter"
    /\ \E l \in JoinKeys :
          joinLeft[l] = VError /\ ErrorInJoinLogged("left", l) /\ RowsWithLeft(l) # {}
    /\ \E r \in JoinKeys : joinRight[r] = VError
    /\ JoinLeftRight(joinLeft, joinRight) # {}


MatchedRights(l) == MatchesOfLeft(joinLeft, joinRight, l)
MatchedLefts(r) == MatchesOfRight(joinLeft, joinRight, r)

DuplicateKeyLogged(l) ==
    [error |-> "DuplicateKey", side |-> "result", key |-> <<l>>] \in joinLog

ErrorRow(l) ==
    [key |-> <<l>>,
     values |-> VTuple(<<VPointer(l), joinLeft[l], VError, VError>>),
     diff |-> DIFF_INSERTION]

\* C23: in a LeftKeysFull or LeftKeysSubset join the result holds, after any
\* updates, one row for each result key, which is a left key; the row of a
\* left row that matches more than one right row is the error row, and
\* DuplicateKey has been logged for it; the row of
\* a left row that matches one right row is the joined row.
C23_OneRowPerLeftKey ==
    IsLeftKeys(joinType) =>
        /\ \A x \in joinOut : x.key \in {<<l>> : l \in Rows(joinLeft)}
        /\ \A x, y \in joinOut : x.key = y.key => x = y
        /\ \A l \in Rows(joinLeft) :
              /\ Cardinality(MatchedRights(l)) > 1 =>
                    RowsWithLeft(l) = {ErrorRow(l)} /\ DuplicateKeyLogged(l)
              /\ \A r \in JoinKeys : MatchedRights(l) = {r} =>
                    RowsWithLeft(l) = {JoinedRow(joinType, joinLeft, joinRight, l, r)}

\* a left row that matches two right rows: its row is the error row and
\* DuplicateKey has just been logged
C23_Witness ==
    /\ IsLeftKeys(joinType)
    /\ \E l \in Rows(joinLeft) :
          /\ Cardinality(MatchedRights(l)) > 1
          /\ ErrorRow(l) \in joinOut
          /\ DuplicateKeyLogged(l)

\* C24: in a left outer or full outer join a left row appears once for each
\* right row it matches or, when it matches none, once padded with
\* Value::None, and never both ways; so the padded row goes when the first
\* match comes and is back when the last one goes.  The same holds for the
\* right rows of a right outer or full outer join.
C24_MatchedOrPadded ==
    /\ joinType \in {"LeftOuter", "FullOuter"} =>
          \A l \in Rows(joinLeft) :
              RowsWithLeft(l) =
                 IF MatchedRights(l) = {} THEN PaddedLeft(l)
                 ELSE {JoinedRow(joinType, joinLeft, joinRight, l, r) : r \in MatchedRights(l)}
    /\ joinType \in {"RightOuter", "FullOuter"} =>
          \A r \in Rows(joinRight) :
              RowsWithRight(r) =
                 IF MatchedLefts(r) = {} THEN PaddedRight(r)
                 ELSE {JoinedRow(joinType, joinLeft, joinRight, l, r) : l \in MatchedLefts(r)}

\* a full outer join with a left row matched by two right rows next to a
\* left row that is padded
C24_Witness ==
    /\ joinType = "FullOuter"
    /\ \E l \in Rows(joinLeft) : Cardinality(MatchedRights(l)) > 1
    /\ \E l \in Rows(joinLeft) : MatchedRights(l) = {} /\ PaddedLeft(l) \subseteq joinOut


(***************************************************************************)
(* forget_immediately and filter_out_results_of_forgetting.  A table is    *)
(* the collection of its updates, kept as the diff of every (row, time).   *)
(***************************************************************************)
NumFgRows == 2
MaxFgTime == 4

FgRows == 1..NumFgRows

\* the times of the input, and the times of the results: one more
FgInTimes == 0..MaxFgTime
FgTimes == 0..(MaxFgTime + 1)

FgUpdates == FgRows \X FgTimes

\* Timestamp::is_original
IsOriginal(time) == time % 2 = 0

DelayedNot(time) == time

\* the delay of the forgetting stream: produces neu times
Delayed(time) == time + 1

DiffOf(collection, row, time) ==
    IF <<row, time>> \in DOMAIN collection THEN collection[<<row, time>>] ELSE 0

\* table.values().negate().delay(..)
ForgettingStream(collection) ==
    [u \in FgUpdates |->
        LET from == {t \in FgTimes : Delayed(t) = u[2]}
            Sum[ts \in SUBSET from] ==
                IF ts = {} THEN 0
                ELSE LET t == CHOOSE x \in ts : TRUE
                     IN Sum[ts \ {t}] - DiffOf(collection, u[1], t)
        IN Sum[from]]

\* forget_immediately: the input concatenated with the forgetting stream
ForgetImmediately(collection) ==
    [u \in FgUpdates |-> collection[u] + ForgettingStream(collection)[u]]

FilterKeepsAll(collection) == collection

\* filter_out_results_of_forgetting
FilterOutResultsOfForgetting(collection) ==
    [u \in FgUpdates |-> IF IsOriginal(u[2]) THEN collection[u] ELSE 0]

\* the table at a time: the sum of the diffs up to it
AccumulatedAt(collection, row, time) ==
    LET Sum[t \in FgTimes] ==
            collection[<<row, t>>] + IF t = 0 THEN 0 ELSE Sum[t - 1]
    IN Sum[time]

ForgetInit ==
    /\ fgTime = 0
    /\ fgIn = [u \in FgUpdates |-> 0]
    /\ fgOut = [u \in FgUpdates |-> 0]
    /\ fgBack = [u \in FgUpdates |-> 0]
    /\ fgErr = "none"

\* a batch of the input at an original time goes through both operators
ForgetBatch(time, batch) ==
    /\ fgErr = "none"
    /\ time >= fgTime
    /\ IsOriginal(time)
    /\ \E row \in FgRows : batch[row] # 0
    /\ fgIn' = [u \in FgUpdates |-> IF u[2] = time THEN batch[u[1]] ELSE fgIn[u]]
    /\ fgOut' = ForgetImmediately(fgIn')
    /\ fgBack' = FilterOutResultsOfForgetting(fgOut')
    /\ fgTime' = time + 1
    /\ UNCHANGED fgErr
    /\ UNCHANGED notForget

\* a batch of the input at a neu time fails the assertion of forget_immediately
ForgetNeuBatch(time) ==
    /\ fgErr = "none"
    /\ time >= fgTime
    /\ ~ IsOriginal(time)
    /\ fgErr' = "panic"
    /\ UNCHANGED <<fgTime, fgIn, fgOut, fgBack>>
    /\ UNCHANGED notForget

ForgetNext ==
    \/ \E time \in FgInTimes, batch \in [FgRows -> {DIFF_DELETION, 0, DIFF_INSERTION}] :
          ForgetBatch(time, batch)
    \/ \E time \in FgInTimes : ForgetNeuBatch(time)

InitForget ==
    /\ ForgetInit
    /\ DriverIdle /\ SinkIdle /\ StaticIdle /\ UpdateIdle /\ ExprIdle /\ IterIdle /\ StreamIdle /\ OutIdle /\ GroupIdle /\ IxIdle /\ JoinIdle /\ SetIdle /\ LoggerIdle /\ FlushIdle /\ BuildIdle /\ DedupIdle /\ MemoIdle /\ SubscribeIdle /\ LoopIdle /\ OtIdle

SpecForget == InitForget /\ [][ForgetNext]_vars

\* C25: for every update (row, t, d) of the input, at an original time t,
\* forget_immediately puts out (row, t, d) and (row, t + 1, -d), so that its
\* output accumulated at any later time holds nothing of what came at t:
\* it holds what the input brought at that very time, and no more.
C25_ForgottenAtNextTime ==
    \A row \in FgRows, t \in FgInTimes :
        fgIn[<<row, t>>] # 0 =>
            /\ IsOriginal(t)
            /\ fgOut[<<row, t>>] = fgIn[<<row, t>>]
            /\ fgOut[<<row, t + 1>>] = - fgIn[<<row, t>>]
            /\ \A later \in FgTimes :
                  later > t => AccumulatedAt(fgOut, row, later) = fgIn[<<row, later>>]

\* a row inserted at one time and again two times later, and another deleted
C25_Witness ==
    /\ \E row \in FgRows, t \in FgInTimes :
          /\ fgIn[<<row, t>>] = DIFF_INSERTION
          /\ t + 2 \in FgInTimes
          /\ fgIn[<<row, t + 2>>] = DIFF_INSERTION
          /\ fgOut[<<row, t + 1>>] = DIFF_DELETION
    /\ \E row \in FgRows, t \in FgInTimes : fgIn[<<row, t>>] = DIFF_DELETION

\* C26: filter_out_results_of_forgetting lets through the updates at original
\* times and no update at a neu time, and applied to forget_immediately of a
\* table it gives the updates of that table back.
C26_FilterUndoesForgetting ==
    /\ \A u \in FgUpdates :
          fgBack[u] = IF IsOriginal(u[2]) THEN fgOut[u] ELSE 0
    /\ fgBack = fgIn

\* the output of forget_immediately holds updates at neu times that the
\* filter dropped
C26_Witness ==
    /\ \E u \in FgUpdates : ~ IsOriginal(u[2]) /\ fgOut[u] # 0 /\ fgBack[u] = 0
    /\ \E u \in FgUpdates : fgBack[u] # 0


(***************************************************************************)
(* subtract_table, intersect_tables and concat_tables.  A table is the     *)
(* multiset of its rows: the number of times each (key, value) is there.   *)
(* Of B only the keys are used: the collection of the key of every row.    *)
(***************************************************************************)
NumSetKeys == 2

SetKeys == 1..NumSetKeys
SetValues == {1, 2}
SetRows == SetKeys \X SetValues
SetMults == {0, 1, 2}

\* join_core of the arranged values with arranged keys
JoinCoreWithKeys(values, keys) == [row \in SetRows |-> values[row] * keys[row[1]]]

Negate(values) == [row \in SetRows |-> - values[row]]

\* concat, concatenate
Concat(one, other) == [row \in SetRows |-> one[row] + other[row]]

SubtractTableOnce(left, rightKeys) ==
    Concat(left, Negate([row \in SetRows |-> IF rightKeys[row[1]] > 0 THEN left[row] ELSE 0]))

\* subtract_table
SubtractTable(left, rightKeys) ==
    Concat(left, Negate(JoinCoreWithKeys(left, rightKeys)))

\* intersect_tables with one other table
IntersectTables(values, otherKeys) == JoinCoreWithKeys(values, otherKeys)

\* concat_tables of two tables
ConcatTables(one, other) == Concat(one, other)

SetInit ==
    /\ setA = [row \in SetRows |-> 0]
    /\ setB = [k \in SetKeys |-> 0]
    /\ setSub = [row \in SetRows |-> 0]
    /\ setInt = [row \in SetRows |-> 0]
    /\ setCat = [row \in SetRows |-> 0]

\* a batch changes the tables to a and b
SetStep(a, b) ==
    /\ setA' = a
    /\ setB' = b
    /\ setSub' = SubtractTable(a, b)
    /\ setInt' = IntersectTables(a, b)
    /\ setCat' = ConcatTables(setSub', setInt')
    /\ UNCHANGED notSet

SetChangeA(row, mult) ==
    /\ mult # setA[row]
    /\ SetStep([setA EXCEPT ![row] = mult], setB)

SetChangeB(k, mult) ==
    /\ mult # setB[k]
    /\ SetStep(setA, [setB EXCEPT ![k] = mult])

SetNext ==
    \/ \E row \in SetRows, mult \in SetMults : SetChangeA(row, mult)
    \/ \E k \in SetKeys, mult \in SetMults : SetChangeB(k, mult)

InitSet ==
    /\ SetInit
    /\ DriverIdle /\ SinkIdle /\ StaticIdle /\ UpdateIdle /\ ExprIdle /\ IterIdle /\ StreamIdle /\ OutIdle /\ GroupIdle /\ IxIdle /\ JoinIdle /\ ForgetIdle /\ LoggerIdle /\ FlushIdle /\ BuildIdle /\ DedupIdle /\ MemoIdle /\ SubscribeIdle /\ LoopIdle /\ OtIdle

SpecSet == InitSet /\ [][SetNext]_vars

\* C27: whatever rows have been inserted into and deleted from A and B, the
\* concatenation of subtract_table(A, B) and intersect_tables(A, [B]) is A,
\* as a multiset of rows.
C27_SubtractPlusIntersect == setCat = setA

\* a row of A whose key is twice in B, so that the difference holds it a
\* negative number of times, next to a row of A whose key is not in B
C27_Witness ==
    /\ \E row \in SetRows : setA[row] > 0 /\ setB[row[1]] > 1 /\ setSub[row] < 0
    /\ \E row \in SetRows : setA[row] > 0 /\ setB[row[1]] = 0 /\ setInt[row] = 0

(***************************************************************************)
(* update_cells_table against update_rows_table, with the same column      *)
(* paths for both tables, covering all columns.                            *)
(***************************************************************************)
\* column_paths and update_paths are the same and cover all columns
PathsCoverAllColumns == cellPaths = << <<1, 2>>, <<1, 2>> >>

\* the cells update_cells_table puts after the original values, as a row
UpdatedCells(out) ==
    IF out = <<>> THEN <<>> ELSE <<VTuple(Tail(out[1][2]))>>

NumErrorLogs == 2
MaxLogged == 2

ErrorLogs == 1..NumErrorLogs

\* Option::None for an error log, and a handle that is not in the arena
NoLog == 0
InvalidHandle == NumErrorLogs + 1

LoggedKinds == {"ErrorInValue", "DuplicateKey"}

NoLogger == [kind |-> "none", error_log |-> NoLog, depends |-> FALSE, selected |-> NoLog]

ErrorLogOfCurrent(depends_on_error_log, current, default) ==
    IF current # NoLog THEN current ELSE default

\* the error log of a new ErrorLogger
ErrorLogOf(depends_on_error_log, current, default) ==
    IF depends_on_error_log THEN NoLog
    ELSE IF current # NoLog THEN current ELSE default

CreateErrorLoggerNeverReporter(terminate, depends_on_error_log, current, default) ==
    [kind |-> "logger",
     error_log |-> ErrorLogOf(depends_on_error_log, current, default),
     depends |-> depends_on_error_log,
     selected |-> current]

\* create_error_logger, for an operator whose properties are set; depends
\* and selected keep what held when the logger was made
CreateErrorLogger(terminate, depends_on_error_log, current, default) ==
    IF terminate
    THEN [kind |-> "reporter", error_log |-> NoLog,
          depends |-> depends_on_error_log, selected |-> current]
    ELSE [kind |-> "logger",
          error_log |-> ErrorLogOf(depends_on_error_log, current, default),
          depends |-> depends_on_error_log,
          selected |-> current]

\* the error sent for the n-th logged error
SentError(kind, n) == <<kind, n>>

\* log_error of the error reporter: the error is reported
ReporterLogError(channel, error) == TrySend(channel, error)

LoggerInit ==
    /\ elTerminate \in BOOLEAN
    /\ elInner \in BOOLEAN
    /\ elDefault \in IF elInner THEN ErrorLogs \cup {NoLog} ELSE {NoLog}
    /\ elCurrent = NoLog
    /\ elOperator = "unset"
    /\ elLogger = NoLogger
    /\ elLogs = [log \in ErrorLogs |-> 0]
    /\ elChannel = <<>>
    /\ elCount = 0
    /\ elLast = "none"
    /\ elResult = <<"running">>
    /\ elErr = "none"

Building == elErr = "none" /\ elResult = <<"running">> /\ elLogger.kind # "dropped"

\* set_operator_properties
LoggerSetOperatorProperties(depends_on_error_log) ==
    /\ Building
    /\ elOperator' = IF depends_on_error_log THEN "depends" ELSE "plain"
    /\ elOperator' # elOperator
    /\ UNCHANGED <<elTerminate, elInner, elDefault, elCurrent, elLogger, elLogs, elChannel,
                   elCount, elLast, elResult, elErr>>
    /\ UNCHANGED notLogger

\* set_error_log
LoggerSetErrorLog(handle) ==
    /\ Building
    /\ IF elInner
       THEN elErr' = "NotSupportedInIteration" /\ UNCHANGED elCurrent
       ELSE IF handle = InvalidHandle
       THEN elErr' = "InvalidErrorLogHandle" /\ UNCHANGED elCurrent
       ELSE elCurrent # handle /\ elCurrent' = handle /\ UNCHANGED elErr
    /\ UNCHANGED <<elTerminate, elInner, elDefault, elOperator, elLogger, elLogs, elChannel,
                   elCount, elLast, elResult>>
    /\ UNCHANGED notLogger

\* create_error_logger
LoggerCreate ==
    /\ Building
    /\ IF ~ elTerminate /\ elOperator = "unset"
       THEN elErr' = "OperatorIdNotSet" /\ UNCHANGED elLogger
       ELSE /\ elLogger' = CreateErrorLogger(elTerminate, elOperator = "depends",
                                             elCurrent, elDefault)
            /\ elLogger' # elLogger
            /\ UNCHANGED elErr
    /\ UNCHANGED <<elTerminate, elInner, elDefault, elCurrent, elOperator, elLogs, elChannel,
                   elCount, elLast, elResult>>
    /\ UNCHANGED notLogger

\* log_error on the logger: report for the error reporter, inner_log for an
\* ErrorLogger
LoggerLog(kind) ==
    /\ elErr = "none"
    /\ elLogger.kind \in {"reporter", "logger"}
    /\ elCount < MaxLogged
    /\ elCount' = elCount + 1
    /\ elLast' = kind
    /\ IF elLogger.kind = "reporter"
       THEN /\ elChannel' = ReporterLogError(elChannel, SentError(kind, elCount + 1))
            /\ UNCHANGED elLogs
       ELSE /\ elLogs' = IF kind = "ErrorInValue" \/ elLogger.error_log = NoLog
                         THEN elLogs
                         ELSE [elLogs EXCEPT ![elLogger.error_log] = @ + 1]
            /\ UNCHANGED elChannel
    /\ UNCHANGED <<elTerminate, elInner, elDefault, elCurrent, elOperator, elLogger, elResult,
                   elErr>>
    /\ UNCHANGED notLogger

\* the workers finish and drop their loggers
LoggerDrop ==
    /\ elErr = "none"
    /\ elLogger.kind \in {"reporter", "logger"}
    /\ elLogger' = [elLogger EXCEPT !.kind = "dropped"]
    /\ UNCHANGED <<elTerminate, elInner, elDefault, elCurrent, elOperator, elLogs, elChannel,
                   elCount, elLast, elResult, elErr>>
    /\ UNCHANGED notLogger

\* the driver takes an error from the channel and returns it
LoggerDriverRecv ==
    /\ elResult = <<"running">>
    /\ elChannel # <<>>
    /\ elResult' = <<"Err", Head(elChannel)>>
    /\ elChannel' = Tail(elChannel)
    /\ UNCHANGED <<elTerminate, elInner, elDefault, elCurrent, elOperator, elLogger, elLogs,
                   elCount, elLast, elErr>>
    /\ UNCHANGED notLogger

\* the driver finds the channel empty and closed, and returns Ok
LoggerDriverClosed ==
    /\ elResult = <<"running">>
    /\ elChannel = <<>>
    /\ elLogger.kind = "dropped"
    /\ elResult' = <<"Ok">>
    /\ UNCHANGED <<elTerminate, elInner, elDefault, elCurrent, elOperator, elLogger, elLogs,
                   elChannel, elCount, elLast, elErr>>
    /\ UNCHANGED notLogger

LoggerNext ==
    \/ \E depends \in BOOLEAN : LoggerSetOperatorProperties(depends)
    \/ \E handle \in ErrorLogs \cup {NoLog, InvalidHandle} : LoggerSetErrorLog(handle)
    \/ LoggerCreate
    \/ \E kind \in LoggedKinds : LoggerLog(kind)
    \/ LoggerDrop
    \/ LoggerDriverRecv
    \/ LoggerDriverClosed

InitLogger ==
    /\ LoggerInit
    /\ DriverIdle /\ SinkIdle /\ StaticIdle /\ UpdateIdle /\ ExprIdle /\ IterIdle /\ StreamIdle /\ OutIdle /\ GroupIdle /\ IxIdle /\ JoinIdle /\ ForgetIdle /\ SetIdle /\ FlushIdle /\ BuildIdle /\ DedupIdle /\ MemoIdle /\ SubscribeIdle /\ LoopIdle /\ OtIdle

SpecLogger == InitLogger /\ [][LoggerNext]_vars

\* the driver thread waits in its select and takes an error that is there
SpecLoggerFair == SpecLogger /\ WF_vars(LoggerDriverRecv)

\* a step in which an error is logged
IsLogged == elCount' = elCount + 1

\* C29: with terminate_on_error set, every logged error is handed to the
\* error reporter channel (which keeps it unless it is full) and no record
\* is ever inserted into an error log; the first logged error is in the
\* channel until run_with_new_dataflow_graph returns Err with it, which it
\* does.
C29_TerminateOnError ==
    /\ [](elTerminate =>
            /\ \A log \in ErrorLogs : elLogs[log] = 0
            /\ elCount > 0 =>
                  \E kind \in LoggedKinds :
                      \/ elChannel = <<SentError(kind, 1)>> /\ elResult = <<"running">>
                      \/ elResult = <<"Err", SentError(kind, 1)>>)
    /\ [][(elTerminate /\ IsLogged) =>
              elChannel' = TrySend(elChannel, SentError(elLast', elCount'))]_vars
    /\ (elTerminate /\ elCount > 0) ~> (elResult[1] = "Err")

\* two errors have been logged and the run returned Err with the first
C29_Witness ==
    /\ elTerminate
    /\ elCount > 1
    /\ elResult[1] = "Err"
    /\ elResult[2][2] = 1

\* the log the records of the last logger must go to, or NoLog
SelectedLog ==
    IF elLogger.selected # NoLog THEN elLogger.selected ELSE elDefault

\* C30: in log-and-continue mode an error logged by a logger made while the
\* current operator had depends_on_error_log set inserts no record into any
\* error log; an error logged by any other logger inserts one record into
\* the log that was selected by the latest set_error_log when the logger was
\* made, or into the default log when none was selected, and into no other
\* log (ErrorInValue inserts none, and so does any error when there is
\* neither a selected nor a default log).
C30_DependsOnErrorLog ==
    [][(~ elTerminate /\ IsLogged) =>
          IF elLogger.depends \/ elLast' = "ErrorInValue" \/ SelectedLog = NoLog
          THEN elLogs' = elLogs
          ELSE elLogs' = [elLogs EXCEPT ![SelectedLog] = @ + 1]]_vars

\* a logger of an operator that depends on the error log, made while a log
\* was selected, has logged an error, after a record was inserted for another
C30_Witness ==
    /\ ~ elTerminate
    /\ elLogger.kind = "logger" /\ elLogger.depends /\ elLogger.selected # NoLog
    /\ elLast = "DuplicateKey"
    /\ elCount > 1
    /\ \E log \in ErrorLogs : elLogs[log] = 1
    /\ \A log \in ErrorLogs : elLogs[log] <= 1


(***************************************************************************)
(* ErrorLogInner: the input session of an error log and its flushes.  The  *)
(* system time is read in seconds and is whatever the clock shows at the   *)
(* call; the records are counted.                                          *)
(***************************************************************************)
MaxNow == 3
MaxFlRecords == 2

\* Duration::from_secs(1)
ERROR_LOG_FLUSH_PERIOD == 1

FlTimes == 0..MaxNow

FlushDueAlways(last_flush, now) == TRUE

\* last_flush.is_none_or(|last_flush| last_flush + ERROR_LOG_FLUSH_PERIOD <= now)
FlushDue(last_flush, now) ==
    last_flush = <<>> \/ last_flush[1] + ERROR_LOG_FLUSH_PERIOD <= now

\* maybe_flush at the time now, with `pending` records in the session
MaybeFlush(name, now, pending) ==
    /\ IF FlushDue(flLast, now)
       THEN /\ flLast' = <<now>>
            /\ flAdvances' = flAdvances + 1
            /\ flPending' = 0
            /\ flFlushed' = flFlushed + pending
       ELSE /\ flPending' = pending
            /\ UNCHANGED <<flLast, flAdvances, flFlushed>>
    /\ flCall' = [name |-> name, now |-> now,
                  returned |-> flLast'[1] + ERROR_LOG_FLUSH_PERIOD,
                  sent |-> flFlushed' - flFlushed]
    /\ UNCHANGED notFlush

FlushInit ==
    /\ flLast = <<>>
    /\ flPending = 0
    /\ flFlushed = 0
    /\ flAdvances = 0
    /\ flCall = [name |-> "none", now |-> 0, returned |-> 0, sent |-> 0]

\* ErrorLogInner::new: the first maybe_flush
ErrorLogNew(now) ==
    /\ flCall.name = "none"
    /\ MaybeFlush("new", now, flPending)

\* ErrorLogInner::insert
ErrorLogInsert(now) ==
    /\ flCall.name # "none"
    /\ flPending + flFlushed < MaxFlRecords
    /\ MaybeFlush("insert", now, flPending + 1)

\* ErrorLog::maybe_flush, called by the flusher of the worker loop
ErrorLogMaybeFlush(now) ==
    /\ flCall.name # "none"
    /\ flAdvances <= MaxNow
    /\ MaybeFlush("maybe_flush", now, flPending)

FlushNext ==
    \/ \E now \in FlTimes : ErrorLogNew(now)
    \/ \E now \in FlTimes : ErrorLogInsert(now)
    \/ \E now \in FlTimes : ErrorLogMaybeFlush(now)

InitFlush ==
    /\ FlushInit
    /\ DriverIdle /\ SinkIdle /\ StaticIdle /\ UpdateIdle /\ ExprIdle /\ IterIdle /\ StreamIdle /\ OutIdle /\ GroupIdle /\ IxIdle /\ JoinIdle /\ ForgetIdle /\ SetIdle /\ LoggerIdle /\ BuildIdle /\ DedupIdle /\ MemoIdle /\ SubscribeIdle /\ LoopIdle /\ OtIdle

SpecFlush == InitFlush /\ [][FlushNext]_vars

\* C31: the session is advanced and flushed by the first call and afterwards
\* by a call exactly when it is made at least ERROR_LOG_FLUSH_PERIOD after
\* the previous flush; every call returns the time of the latest flush plus
\* the period; a flush leaves no record behind, so a record inserted between
\* two flushes is flushed by the first call made once the period has passed.
C31_FlushEveryPeriod ==
    /\ [](flCall.name # "none" =>
            /\ flLast # <<>>
            /\ flCall.returned = flLast[1] + ERROR_LOG_FLUSH_PERIOD
            /\ flAdvances >= 1)
    /\ [][/\ flAdvances' \in {flAdvances, flAdvances + 1}
          /\ flAdvances' = flAdvances + 1 <=>
                (flLast = <<>> \/ flCall'.now >= flLast[1] + ERROR_LOG_FLUSH_PERIOD)
          /\ flAdvances' = flAdvances + 1 =>
                /\ flLast' = <<flCall'.now>>
                /\ flPending' = 0
                /\ flPending' + flFlushed' \in {flPending + flFlushed,
                                               flPending + flFlushed + 1}
          /\ flAdvances' = flAdvances =>
                /\ flLast' = flLast
                /\ flFlushed' = flFlushed]_vars

\* a record that an insert made too early left in the session has been
\* flushed by a later maybe_flush
C31_Witness ==
    /\ flCall.name = "maybe_flush"
    /\ flCall.sent = 1
    /\ flAdvances > 2
    /\ flLast = <<flCall.now>>
    /\ flCall.returned = flCall.now + ERROR_LOG_FLUSH_PERIOD


(***************************************************************************)
(* The calls that build a graph, on the outer graph and on the graph used  *)
(* inside iterate: what they return and whether they allocate a table.     *)
(* The arguments are kept as far as the returned error depends on them.    *)
(***************************************************************************)
MaxJoinColumns == 2
MaxTables == 3

GbReducers == {"Count", "IntSum", "Min", "Stateful", "Earliest", "Latest"}

\* the operations InnerDataflowGraph answers with NotSupportedInIteration
NotSupportedOps ==
    {"forget", "forget_immediately", "filter_out_results_of_forgetting", "freeze",
     "buffer", "sort_table", "deduplicate", "stream_to_table",
     "merge_streams_to_table", "set_error_log", "error_log"}

\* the operations InnerDataflowGraph answers with IoNotPossible
IoOps ==
    {"empty_table", "static_table", "subscribe_table", "connector_table",
     "output_table", "attach_prober", "export_table", "import_table",
     "async_transformer"}

\* the operations that give no table on any graph
NoTableOps == {"subscribe_table", "output_table", "attach_prober", "export_table",
               "set_error_log"}

PlainOps == NotSupportedOps \cup IoOps \cup {"iterate"}

JoinConditionLengthsDifferIfLonger(left_len, right_len) == left_len > right_len

\* left_data.column_paths.len() != right_data.column_paths.len()
JoinConditionLengthsDiffer(left_len, right_len) == left_len # right_len

\* join_tables as far as its first error: the lengths are compared before the
\* tables are looked up
JoinTablesResult(left_len, right_len, left_valid, right_valid) ==
    IF JoinConditionLengthsDiffer(left_len, right_len)
    THEN "DifferentJoinConditionLengths"
    ELSE IF ~ left_valid \/ ~ right_valid THEN "InvalidTableHandle"
    ELSE "Ok"

NotTotalReducerFactoryTakesLatest(reducer) ==
    IF reducer \in {"Stateful", "Earliest"} THEN "NotSupportedInIteration" ELSE "Ok"

\* NotTotalReducerFactory::create_dataflow_reducer
NotTotalReducerFactory(reducer) ==
    IF reducer \in {"Stateful", "Earliest", "Latest"}
    THEN "NotSupportedInIteration"
    ELSE "Ok"

\* TimestampReducerFactory::create_dataflow_reducer
TimestampReducerFactory(reducer) ==
    IF reducer \in {"Stateful", "Earliest", "Latest"}
    THEN "Ok"
    ELSE NotTotalReducerFactory(reducer)

\* group_by_table as far as its first error: the table is looked up before
\* the reducers are created
GroupByTableResult(inner, reducer, valid) ==
    IF ~ valid THEN "InvalidTableHandle"
    ELSE IF inner THEN NotTotalReducerFactory(reducer)
    ELSE TimestampReducerFactory(reducer)

\* impl Graph for InnerDataflowGraph: the operations it does not pass on
InnerGraphResult(op) ==
    IF op \in NotSupportedOps THEN "NotSupportedInIteration"
    ELSE IF op \in IoOps THEN "IoNotPossible"
    ELSE IF op = "iterate" THEN "IterationNotPossible"
    ELSE "Ok"

\* expression_table on the inner graph
InnerExpressionTableResult(append_only_or_deterministic) ==
    IF append_only_or_deterministic THEN "Ok" ELSE "NotSupportedInIteration"

BuildInit ==
    /\ gbInner \in BOOLEAN
    /\ gbTables = 0
    /\ gbCall = [op |-> "none", args |-> <<>>, returned |-> "Ok"]

\* the call returned `returned` and, when it is Ok and gives a table,
\* allocated a table
Called(op, args, returned) ==
    /\ gbCall' = [op |-> op, args |-> args, returned |-> returned]
    /\ gbTables' = IF returned = "Ok" /\ op \notin NoTableOps
                   THEN gbTables + 1 ELSE gbTables
    /\ gbTables' <= MaxTables
    /\ UNCHANGED gbInner
    /\ UNCHANGED notBuild

\* join_tables
CallJoinTables(left_len, right_len, left_valid, right_valid) ==
    Called("join_tables", <<left_len, right_len, left_valid, right_valid>>,
           JoinTablesResult(left_len, right_len, left_valid, right_valid))

\* group_by_table with one reducer
CallGroupByTable(reducer, valid) ==
    Called("group_by_table", <<reducer, valid>>,
           GroupByTableResult(gbInner, reducer, valid))

\* expression_table with valid arguments
CallExpressionTable(append_only_or_deterministic) ==
    Called("expression_table", <<append_only_or_deterministic>>,
           IF gbInner THEN InnerExpressionTableResult(append_only_or_deterministic)
           ELSE "Ok")

\* one of the other operations, with valid arguments
CallPlain(op) ==
    Called(op, <<>>, IF gbInner THEN InnerGraphResult(op) ELSE "Ok")

BuildNext ==
    \/ \E left_len, right_len \in 0..MaxJoinColumns, left_valid, right_valid \in BOOLEAN :
          CallJoinTables(left_len, right_len, left_valid, right_valid)
    \/ \E reducer \in GbReducers, valid \in BOOLEAN : CallGroupByTable(reducer, valid)
    \/ \E deterministic \in BOOLEAN : CallExpressionTable(deterministic)
    \/ \E op \in PlainOps : CallPlain(op)

InitBuild ==
    /\ BuildInit
    /\ DriverIdle /\ SinkIdle /\ StaticIdle /\ UpdateIdle /\ ExprIdle /\ IterIdle /\ StreamIdle /\ OutIdle /\ GroupIdle /\ IxIdle /\ JoinIdle /\ ForgetIdle /\ SetIdle /\ LoggerIdle /\ FlushIdle /\ DedupIdle /\ MemoIdle /\ SubscribeIdle /\ LoopIdle /\ OtIdle

SpecBuild == InitBuild /\ [][BuildNext]_vars

\* C32: join_tables with join column lists of different lengths returns
\* DifferentJoinConditionLengths and allocates no table; with lists of equal
\* lengths it never returns this error.
C32_JoinConditionLengths ==
    [][gbCall'.op = "join_tables" =>
          IF gbCall'.args[1] # gbCall'.args[2]
          THEN gbCall'.returned = "DifferentJoinConditionLengths"
               /\ gbTables' = gbTables
          ELSE gbCall'.returned # "DifferentJoinConditionLengths"]_vars

\* join_tables has been refused for its lengths although a table handle was
\* invalid too, after tables had been allocated
C32_Witness ==
    /\ gbCall.op = "join_tables"
    /\ gbCall.args[1] # gbCall.args[2]
    /\ ~ gbCall.args[3]
    /\ gbCall.returned = "DifferentJoinConditionLengths"
    /\ gbTables > 0

\* what C33 says the last call returns on the graph used inside iterate, or
\* "any" for a call it says nothing about
C33Expected ==
    IF gbCall.op = "group_by_table"
    THEN IF gbCall.args[2] /\ gbCall.args[1] \in {"Stateful", "Earliest", "Latest"}
         THEN "NotSupportedInIteration" ELSE "any"
    ELSE IF gbCall.op = "expression_table"
    THEN IF gbCall.args[1] THEN "any" ELSE "NotSupportedInIteration"
    ELSE IF gbCall.op \in {"forget", "forget_immediately",
                           "filter_out_results_of_forgetting", "freeze", "buffer",
                           "stream_to_table", "merge_streams_to_table",
                           "set_error_log", "error_log"}
    THEN "NotSupportedInIteration"
    ELSE IF gbCall.op \in IoOps THEN "IoNotPossible"
    ELSE IF gbCall.op = "iterate" THEN "IterationNotPossible"
    ELSE "any"

MaxDdValue == 2

DdGroups == {1, 2}
DdStates == {VInt(n) : n \in 1..MaxDdValue} \cup {NoRow}

\* what a row holds in its grouping column
DdGroupings == {VInt(g) : g \in DdGroups} \cup {VError}
DdRows == {[grouping |-> g, value |-> VInt(1)] : g \in DdGroupings}

\* what combine_fn returns
OkState(s) == <<"Ok", s>>
CombineError == <<"Err">>
DdResults == {OkState(s) : s \in DdStates} \cup {CombineError}

\* the rows of the batch that get a new key: none with Value::Error in the
\* grouping column
WithNewKeys(rows) == {row \in rows : row.grouping # VError}

\* the groups combine_fn is called for
CalledGroups(rows) == {g \in DdGroups : \E row \in WithNewKeys(rows) : row.grouping = VInt(g)}

DeduplicateLogicForgets(state, returned) ==
    IF returned = CombineError THEN NoRow ELSE returned[2]

\* the logic deduplicate gives to the stateful reduce
DeduplicateLogic(state, returned) ==
    IF returned = CombineError THEN state ELSE returned[2]

\* stateful_reduce: the updates for a group whose state went from old to new
StatefulReduceUpdates(g, old, new) ==
    IF old = new THEN {}
    ELSE (IF old = NoRow THEN {} ELSE {<<g, old, DIFF_DELETION>>})
         \cup (IF new = NoRow THEN {} ELSE {<<g, new, DIFF_INSERTION>>})

DedupInit ==
    /\ ddState = [g \in DdGroups |-> NoRow]
    /\ ddOut = [g \in DdGroups |-> NoRow]
    /\ ddLast = [rows |-> {}, returned |-> [g \in {} |-> CombineError],
                 updates |-> {}, log |-> {}]

\* a batch of rows at one time; combine_fn returns returned[g] for group g
DeduplicateBatch(rows, returned) ==
    /\ rows # {}
    /\ DOMAIN returned = CalledGroups(rows)
    /\ ddState' = [g \in DdGroups |->
                      IF g \in CalledGroups(rows)
                      THEN DeduplicateLogic(ddState[g], returned[g])
                      ELSE ddState[g]]
    /\ ddLast' = [rows |-> rows,
                  returned |-> returned,
                  updates |-> UNION {StatefulReduceUpdates(g, ddState[g], ddState'[g]) :
                                        g \in DdGroups},
                  log |-> (IF WithNewKeys(rows) # rows THEN {<<"ErrorInDeduplicate">>} ELSE {})
                          \cup {<<"combine_fn", g>> :
                                  g \in {x \in CalledGroups(rows) :
                                           returned[x] = CombineError}}]
    /\ ddOut' = [g \in DdGroups |->
                    IF \E u \in ddLast'.updates : u[1] = g /\ u[3] = DIFF_INSERTION
                    THEN (CHOOSE u \in ddLast'.updates : u[1] = g /\ u[3] = DIFF_INSERTION)[2]
                    ELSE IF \E u \in ddLast'.updates : u[1] = g /\ u[3] = DIFF_DELETION
                    THEN NoRow
                    ELSE ddOut[g]]
    /\ UNCHANGED notDedup

DedupNext ==
    \E rows \in SUBSET DdRows :
        \E returned \in [CalledGroups(rows) -> DdResults] :
            DeduplicateBatch(rows, returned)

InitDedup ==
    /\ DedupInit
    /\ DriverIdle /\ SinkIdle /\ StaticIdle /\ UpdateIdle /\ ExprIdle /\ IterIdle /\ StreamIdle /\ OutIdle /\ GroupIdle /\ IxIdle /\ JoinIdle /\ ForgetIdle /\ SetIdle /\ LoggerIdle /\ FlushIdle /\ BuildIdle /\ MemoIdle /\ SubscribeIdle /\ LoopIdle /\ OtIdle

SpecDedup == InitDedup /\ [][DedupNext]_vars

\* combine_fn was called for group g in the last batch
DdCalled(g) == g \in DOMAIN ddLast.returned

\* C34: the state of a group changes only when combine_fn returns Ok: on
\* Ok(s) it becomes s; on an error the error is logged, the state stays what
\* it was and the batch brings no update for the group; a group combine_fn
\* was not called for keeps its state; and combine_fn is called for the
\* groups of the rows without Value::Error in the grouping column only.
C34_StateFollowsCombine ==
    /\ [](/\ ddOut = ddState
          /\ \A g \in DdGroups :
                DdCalled(g) <=>
                    \E row \in ddLast.rows : row.grouping = VInt(g))
    /\ [][\A g \in DdGroups :
            /\ (DdCalled(g)' /\ ddLast'.returned[g] # CombineError)
                  => ddState'[g] = ddLast'.returned[g][2]
            /\ (DdCalled(g)' /\ ddLast'.returned[g] = CombineError)
                  => /\ ddState'[g] = ddState[g]
                     /\ <<"combine_fn", g>> \in ddLast'.log
                     /\ ~ \E u \in ddLast'.updates : u[1] = g
            /\ ~ DdCalled(g)' => ddState'[g] = ddState[g]]_vars

\* a batch with a row whose grouping column holds Value::Error and a row of
\* a group that has a state, for which combine_fn returned an error
C34_Witness ==
    /\ \E row \in ddLast.rows : row.grouping = VError
    /\ \E g \in DdGroups :
          /\ DdCalled(g)
          /\ ddLast.returned[g] = CombineError
          /\ ddState[g] # NoRow
          /\ ddOut[g] = ddState[g]
    /\ ddLast.updates = {}


(***************************************************************************)
(* UniverseData and ColumnData: the forms of the data and their cells.     *)
(* Every object that is built is a new one, numbered in the order of the   *)
(* builds; the form the data was created from is object 1.                 *)
(***************************************************************************)
MaxMemoCalls == 4

Forms == {"collection", "arranged", "consolidated"}

\* the number of objects there are
Objects(builds) == 1 + builds["collection"] + builds["arranged"] + builds["consolidated"]

GetOrInitAlways(cell, built) == built

\* OnceCell::get_or_init: `built` is what the closure would build
GetOrInit(cell, built) == IF cell = 0 THEN built ELSE cell

\* the cells and the builds after get_or_init on the cell of a form
WithForm(cells, builds, form) ==
    LET got == GetOrInit(cells[form], Objects(builds) + 1)
    IN [cells |-> [cells EXCEPT ![form] = got],
        builds |-> IF got = Objects(builds) + 1
                   THEN [builds EXCEPT ![form] = @ + 1] ELSE builds]

\* collection()
CollectionForm(from, cells, builds) ==
    IF from = "collection" THEN [cells |-> cells, builds |-> builds]
    ELSE WithForm(cells, builds, "collection")

\* arranged()
ArrangedForm(from, cells, builds) ==
    IF from = "arranged" THEN [cells |-> cells, builds |-> builds]
    ELSE WithForm(cells, builds, "arranged")

\* consolidated(): built from arranged() for data created from a collection,
\* and collection() for data created from an arrangement
ConsolidatedForm(from, cells, builds) ==
    IF from = "arranged" THEN CollectionForm(from, cells, builds)
    ELSE IF GetOrInit(cells["consolidated"], 0) # 0
    THEN [cells |-> cells, builds |-> builds]
    ELSE LET arranged == ArrangedForm(from, cells, builds)
         IN WithForm(arranged.cells, arranged.builds, "consolidated")

\* the form consolidated() returns
ConsolidatedIs(from) == IF from = "arranged" THEN "collection" ELSE "consolidated"

MemoInit ==
    /\ mdKind \in {"UniverseData", "ColumnData"}
    /\ mdFrom \in {"collection", "arranged"}
    /\ mdCells = [form \in Forms |-> IF form = mdFrom THEN 1 ELSE 0]
    /\ mdBuilds = [form \in Forms |-> 0]
    /\ mdFirst = [form \in Forms |-> 0]
    /\ mdCall = [name |-> "none", returned |-> 0]
    /\ mdCalls = 0

\* the method `name` left the cells and builds of `after` and returned the
\* form `form`
MemoCalled(name, after, form) ==
    /\ mdCalls < MaxMemoCalls
    /\ mdCalls' = mdCalls + 1
    /\ mdCells' = after.cells
    /\ mdBuilds' = after.builds
    /\ mdCall' = [name |-> name, returned |-> after.cells[form]]
    /\ mdFirst' = IF mdFirst[name] = 0
                  THEN [mdFirst EXCEPT ![name] = after.cells[form]] ELSE mdFirst
    /\ UNCHANGED <<mdKind, mdFrom>>
    /\ UNCHANGED notMemo

MemoCollection ==
    MemoCalled("collection", CollectionForm(mdFrom, mdCells, mdBuilds), "collection")

MemoArranged ==
    MemoCalled("arranged", ArrangedForm(mdFrom, mdCells, mdBuilds), "arranged")

MemoConsolidated ==
    MemoCalled("consolidated", ConsolidatedForm(mdFrom, mdCells, mdBuilds),
               ConsolidatedIs(mdFrom))

MemoNext ==
    \/ MemoCollection
    \/ MemoArranged
    \/ MemoConsolidated

InitMemo ==
    /\ MemoInit
    /\ DriverIdle /\ SinkIdle /\ StaticIdle /\ UpdateIdle /\ ExprIdle /\ IterIdle /\ StreamIdle /\ OutIdle /\ GroupIdle /\ IxIdle /\ JoinIdle /\ ForgetIdle /\ SetIdle /\ LoggerIdle /\ FlushIdle /\ BuildIdle /\ DedupIdle /\ SubscribeIdle /\ LoopIdle /\ OtIdle

SpecMemo == InitMemo /\ [][MemoNext]_vars

\* C35: whatever calls of collection(), arranged() and consolidated() are
\* made, each form is built at most once and a method returns what its first
\* call returned; the form the data was created from is never built and
\* stays the object it was; for data created from an arrangement
\* consolidated() returns the collection form.
C35_FormsBuiltOnce ==
    /\ \A form \in Forms : mdBuilds[form] <= 1
    /\ mdBuilds[mdFrom] = 0
    /\ mdCells[mdFrom] = 1
    /\ mdCall.name # "none" =>
          /\ mdCall.returned # 0
          /\ mdCall.returned = mdFirst[mdCall.name]
    /\ (mdFrom = "arranged" /\ mdCall.name = "consolidated") =>
          /\ mdCall.returned = mdCells["collection"]
          /\ mdBuilds["consolidated"] = 0

\* consolidated() has been called again on data created from a collection and
\* returned the object its first call built, after the arrangement
C35_Witness ==
    /\ mdFrom = "collection"
    /\ mdCalls > 2
    /\ mdCall.name = "consolidated"
    /\ mdCall.returned = mdFirst["consolidated"]
    /\ mdBuilds["arranged"] = 1 /\ mdBuilds["consolidated"] = 1
    /\ mdCells["arranged"] < mdCells["consolidated"]


(***************************************************************************)
(* subscribe_table: the callbacks.  consolidate_for_output gives each      *)
(* worker one batch per time, in the order of the times; inspect makes the *)
(* callbacks of a batch; inspect_core sees the frontier of what inspect    *)
(* has let through on all workers.  All four callbacks are given.  A       *)
(* callback may fail: `?` then leaves the closure, and the error goes to   *)
(* the error reporter.                                                     *)
(***************************************************************************)
MaxSbTime == 2

SbWorkers == {0, 1}

SbRows == {1, 2}

SbTimes == 1 .. MaxSbTime

\* the frontier is empty or one time
SbEmptyFrontier == <<>>

\* Timestamp::is_from_persistence
IsFromPersistence(time) == time \in sbPersisted

SkipInitialTimeWithoutStorage(skip_persisted_batch, storage) == skip_persisted_batch

\* skip_initial_time
SkipInitialTime(skip_persisted_batch, storage) == skip_persisted_batch /\ storage

\* the rows of a batch in the order they are iterated in
SbInOrder(rows) ==
    CHOOSE s \in [1 .. Cardinality(rows) -> rows] :
        \A i, j \in 1 .. Cardinality(rows) : i < j => s[i] < s[j]

\* the callbacks of a whole batch
SbAllCalls(time, rows) ==
    [i \in 1 .. Cardinality(rows) |-> <<"on_data", SbInOrder(rows)[i], time>>]
        \o <<<<"on_time_end", 0, time>>>>

InspectCallsAll(time, rows, skip, failing) == SbAllCalls(time, rows)

\* the closure of inspect: the callbacks made for a batch, where the
\* `failing`-th callback returns an error (none when 0)
InspectCalls(time, rows, skip, failing) ==
    IF IsFromPersistence(time) /\ skip THEN <<>>
    ELSE IF failing = 0 THEN SbAllCalls(time, rows)
    ELSE SubSeq(SbAllCalls(time, rows), 1, failing)

\* the batches a worker has not inspected yet
SbPendingTimes(w) == {t \in SbTimes : sbPending[w][t] # {}}

\* the input frontier of inspect_core
SbFrontierOf(pending, input) ==
    LET open == {t \in SbTimes : (\E w \in SbWorkers : pending[w][t] # {}) \/ t >= input}
    IN IF open = {} THEN SbEmptyFrontier
       ELSE <<CHOOSE t \in open : \A u \in open : t <= u>>

FrontierCallOnAnyWorker(worker_index, frontier) ==
    IF frontier = SbEmptyFrontier THEN "on_end" ELSE "on_frontier"

\* the callback inspect_core makes on a frontier change
FrontierCall(worker_index, frontier) ==
    IF worker_index # 0 THEN "none"
    ELSE IF frontier = SbEmptyFrontier THEN "on_end" ELSE "on_frontier"

SubscribeInit ==
    /\ sbSkip \in BOOLEAN
    /\ sbStorage \in BOOLEAN
    /\ sbPersisted = {1}
    /\ sbInput = 1
    /\ sbPending = [w \in SbWorkers |-> [t \in SbTimes |-> {}]]
    /\ sbSeen = [w \in SbWorkers |-> <<1>>]
    /\ sbLast = [time |-> 0, rows |-> {}, failing |-> 0, calls |-> <<>>]
    /\ sbFrontier = [worker |-> 0, name |-> "none", frontier |-> <<1>>]
    /\ sbEnded = FALSE

\* a worker's consolidated batch of the time the input is at
SubscribeBatch(w, rows) ==
    /\ sbInput \in SbTimes
    /\ sbPending[w][sbInput] = {}
    /\ \A t \in SbTimes : t > sbInput => sbPending[w][t] = {}
    /\ rows # {}
    /\ sbPending' = [sbPending EXCEPT ![w][sbInput] = rows]
    /\ UNCHANGED <<sbSkip, sbStorage, sbPersisted, sbInput, sbSeen, sbLast, sbFrontier,
                   sbEnded>>
    /\ UNCHANGED notSubscribe

\* the input moves to the next time, or closes after the last one
SubscribeAdvance ==
    /\ sbInput \in SbTimes
    /\ sbInput' = sbInput + 1
    /\ UNCHANGED <<sbSkip, sbStorage, sbPersisted, sbPending, sbSeen, sbLast, sbFrontier,
                   sbEnded>>
    /\ UNCHANGED notSubscribe

\* inspect on worker w for its earliest batch
SubscribeInspect(w, failing) ==
    /\ SbPendingTimes(w) # {}
    /\ LET time == CHOOSE t \in SbPendingTimes(w) : \A u \in SbPendingTimes(w) : t <= u
           rows == sbPending[w][time]
       IN /\ failing <= Cardinality(rows) + 1
          /\ sbLast' = [time |-> time, rows |-> rows, failing |-> failing,
                        calls |-> InspectCalls(time, rows,
                                               SkipInitialTime(sbSkip, sbStorage), failing)]
          /\ sbPending' = [sbPending EXCEPT ![w][time] = {}]
    /\ UNCHANGED <<sbSkip, sbStorage, sbPersisted, sbInput, sbSeen, sbFrontier, sbEnded>>
    /\ UNCHANGED notSubscribe

\* inspect_core on worker w is told that the frontier has changed
SubscribeFrontier(w) ==
    /\ LET frontier == SbFrontierOf(sbPending, sbInput)
           call == FrontierCall(w, frontier)
       IN /\ frontier # sbSeen[w]
          /\ sbSeen' = [sbSeen EXCEPT ![w] = frontier]
          /\ sbFrontier' = IF call = "none" THEN sbFrontier
                           ELSE [worker |-> w, name |-> call, frontier |-> frontier]
          /\ sbEnded' = (sbEnded \/ call = "on_end")
    /\ UNCHANGED <<sbSkip, sbStorage, sbPersisted, sbInput, sbPending, sbLast>>
    /\ UNCHANGED notSubscribe

SubscribeNext ==
    \/ \E w \in SbWorkers, rows \in SUBSET SbRows : SubscribeBatch(w, rows)
    \/ SubscribeAdvance
    \/ \E w \in SbWorkers, failing \in {0, 1} : SubscribeInspect(w, failing)
    \/ \E w \in SbWorkers : SubscribeFrontier(w)

InitSubscribe ==
    /\ SubscribeInit
    /\ DriverIdle /\ SinkIdle /\ StaticIdle /\ UpdateIdle /\ ExprIdle /\ IterIdle /\ StreamIdle /\ OutIdle /\ GroupIdle /\ IxIdle /\ JoinIdle /\ ForgetIdle /\ SetIdle /\ LoggerIdle /\ FlushIdle /\ BuildIdle /\ DedupIdle /\ MemoIdle /\ LoopIdle /\ OtIdle

SpecSubscribe == InitSubscribe /\ [][SubscribeNext]_vars

\* a batch has been inspected
SbInspected == sbLast.time # 0

\* the batch inspected last was skipped
SbSkipped == sbLast.time \in sbPersisted /\ sbSkip /\ sbStorage

\* on_frontier and on_end are called only on worker 0, on_end only when the
\* frontier is empty, and after on_end no batch is left to be inspected
SbFrontierCallsRight ==
    /\ sbFrontier.worker = 0
    /\ sbFrontier.name = "on_end" => sbFrontier.frontier = SbEmptyFrontier
    /\ sbFrontier.name = "on_frontier" => sbFrontier.frontier # SbEmptyFrontier
    /\ sbEnded => /\ sbInput \notin SbTimes
                  /\ \A w \in SbWorkers : SbPendingTimes(w) = {}

\* C37 as stated: for every batch on_data is called once for each row and
\* then on_time_end once with the batch time, a batch of a persisted time
\* being skipped entirely under skip_persisted_batch with persistent storage;
\* on_frontier and on_end are called only on worker 0, on_end only when the
\* frontier is empty, and no on_data is called after on_end.
C37_CallbacksPerBatch ==
    /\ SbInspected =>
          sbLast.calls = IF SbSkipped THEN <<>> ELSE SbAllCalls(sbLast.time, sbLast.rows)
    /\ SbFrontierCallsRight

\* C37 amended: the callbacks of a batch that is not skipped are on_data for
\* each row and then on_time_end up to the first callback that fails, and
\* all of them when none fails.
C37_CallbacksUntilFailure ==
    /\ (SbInspected /\ SbSkipped) => sbLast.calls = <<>>
    /\ (SbInspected /\ ~SbSkipped) =>
          /\ sbLast.failing = 0 => sbLast.calls = SbAllCalls(sbLast.time, sbLast.rows)
          /\ sbLast.failing # 0 =>
                sbLast.calls = SubSeq(SbAllCalls(sbLast.time, sbLast.rows), 1, sbLast.failing)
    /\ SbFrontierCallsRight

\* on_end has been called after a batch of two rows had been inspected
\* in full, and a batch of a persisted time has been skipped before
C37_Witness ==
    /\ sbEnded
    /\ sbFrontier.name = "on_end"
    /\ sbLast.time = 2 /\ sbLast.rows = SbRows
    /\ Len(sbLast.calls) = 3
    /\ sbSkip /\ sbStorage


(***************************************************************************)
(* The worker loop of run_with_new_dataflow_graph: flushers, pollers,      *)
(* step_or_park.  The flushers and pollers are those the construction of   *)
(* the graph has registered; none is added while the loop runs.            *)
(***************************************************************************)
MaxLoopIterations == 3

LpFlushers == {1, 2}

LpPollers == {1, 2}

\* the calls of `name` for each of `them`, in their order
LpCallsOf(name, them) == [i \in 1 .. Cardinality(them) |-> <<name, SbInOrder(them)[i]>>]

RetainAll(pollers, breaks) == pollers

\* pollers.retain_mut: those that return Break are removed
RetainPollers(pollers, breaks) == pollers \ breaks

KeepFlushers(flushers, pollers) == flushers

\* if pollers.is_empty() { flushers.clear() }
ClearFlushers(flushers, pollers) == IF pollers = {} THEN {} ELSE flushers

\* one iteration that gets to step_or_park
LoopCalls(flushers, pollers) ==
    LpCallsOf("flusher", flushers) \o LpCallsOf("poller", pollers)
        \o <<<<"step_or_park", 0>>>>

LoopInit ==
    /\ lpPc = "loop"
    /\ lpFailed = FALSE
    /\ lpFlushers \in SUBSET LpFlushers
    /\ lpPollers \in SUBSET LpPollers
    /\ lpStart = [flushers |-> {}, pollers |-> {}]
    /\ lpCalls = <<>>
    /\ lpBroken = {}
    /\ lpStep = TRUE
    /\ lpIterations = 0

\* the driver stores the failed flag
LoopFail ==
    /\ lpPc = "loop"
    /\ ~lpFailed
    /\ lpFailed' = TRUE
    /\ UNCHANGED <<lpPc, lpFlushers, lpPollers, lpStart, lpCalls, lpBroken, lpStep,
                   lpIterations>>
    /\ UNCHANGED notLoop

\* an iteration that finds the failed flag set: resume_unwind
LoopUnwind ==
    /\ lpPc = "loop"
    /\ lpFailed
    /\ lpPc' = "unwound"
    /\ UNCHANGED <<lpFailed, lpFlushers, lpPollers, lpStart, lpCalls, lpBroken, lpStep,
                   lpIterations>>
    /\ UNCHANGED notLoop

\* an iteration: the pollers of `breaks` return Break, step_or_park returns
\* `more`
LoopIteration(breaks, more) ==
    /\ lpPc = "loop"
    /\ ~lpFailed
    /\ lpIterations < MaxLoopIterations
    /\ breaks \subseteq lpPollers
    /\ lpIterations' = lpIterations + 1
    /\ lpStart' = [flushers |-> lpFlushers, pollers |-> lpPollers]
    /\ lpCalls' = LoopCalls(lpFlushers, lpPollers)
    /\ lpPollers' = RetainPollers(lpPollers, breaks)
    /\ lpBroken' = lpBroken \cup breaks
    /\ lpFlushers' = ClearFlushers(lpFlushers, RetainPollers(lpPollers, breaks))
    /\ lpStep' = more
    /\ lpPc' = IF more THEN "loop" ELSE "after"
    /\ UNCHANGED lpFailed
    /\ UNCHANGED notLoop

\* after the loop: the connector threads are joined
LoopJoin ==
    /\ lpPc = "after"
    /\ lpPc' = "joined"
    /\ UNCHANGED <<lpFailed, lpFlushers, lpPollers, lpStart, lpCalls, lpBroken, lpStep,
                   lpIterations>>
    /\ UNCHANGED notLoop

LoopNext ==
    \/ LoopFail
    \/ LoopUnwind
    \/ \E breaks \in SUBSET LpPollers, more \in BOOLEAN : LoopIteration(breaks, more)
    \/ LoopJoin

InitLoop ==
    /\ LoopInit
    /\ DriverIdle /\ SinkIdle /\ StaticIdle /\ UpdateIdle /\ ExprIdle /\ IterIdle /\ StreamIdle /\ OutIdle /\ GroupIdle /\ IxIdle /\ JoinIdle /\ ForgetIdle /\ SetIdle /\ LoggerIdle /\ FlushIdle /\ BuildIdle /\ DedupIdle /\ MemoIdle /\ SubscribeIdle /\ OtIdle

SpecLoop == InitLoop /\ [][LoopNext]_vars

\* how many times a call is in the calls of the last iteration
LpTimes(call) == Cardinality({i \in 1 .. Len(lpCalls) : lpCalls[i] = call})

\* the place of a call in the calls of the last iteration
LpPlace(call) == CHOOSE i \in 1 .. Len(lpCalls) : lpCalls[i] = call

\* C38: in an iteration every flusher and every remaining poller is invoked
\* once before step_or_park; a poller that returned Break is removed and not
\* invoked again; once no poller remains the flushers are removed and not
\* invoked again; the code after the loop is reached only when step_or_park
\* has returned false, and the connector threads are joined only from there.
C38_WorkerLoop ==
    /\ [](/\ lpIterations > 0 =>
                /\ LpTimes(<<"step_or_park", 0>>) = 1
                /\ lpCalls[Len(lpCalls)] = <<"step_or_park", 0>>
                /\ \A f \in LpFlushers :
                      LpTimes(<<"flusher", f>>) = IF f \in lpStart.flushers THEN 1 ELSE 0
                /\ \A p \in LpPollers :
                      LpTimes(<<"poller", p>>) = IF p \in lpStart.pollers THEN 1 ELSE 0
                /\ (lpPollers = {} => lpFlushers = {})
          /\ lpBroken \cap lpPollers = {}
          /\ lpPc \in {"after", "joined"} => ~lpStep)
    /\ [][/\ lpIterations' # lpIterations =>
                /\ \A p \in lpBroken : LpTimes(<<"poller", p>>)' = 0
                /\ (lpPollers = {} /\ lpIterations > 0) =>
                      \A f \in LpFlushers : LpTimes(<<"flusher", f>>)' = 0
                /\ lpPc' = "after" <=> ~lpStep'
          /\ lpPc' = "joined" => lpPc \in {"after", "joined"}]_vars

\* the third iteration has invoked the one remaining poller and both
\* flushers, and the threads have been joined after it
C38_Witness ==
    /\ lpPc = "joined"
    /\ lpIterations = 3
    /\ lpBroken = {1}
    /\ lpCalls = <<<<"flusher", 1>>, <<"flusher", 2>>, <<"poller", 2>>, <<"step_or_park", 0>>>>


(***************************************************************************)
(* output_table on several workers: every worker calls output_table with   *)
(* its own sink; the rows a worker produces go through                     *)
(* consolidate_for_output to the worker whose inspect_core sends them to   *)
(* its output thread.  The commits are left out.                           *)
(***************************************************************************)
NumOtWorkers == 2

OtWorkers == 0 .. NumOtWorkers - 1

\* a row is <<the worker it is produced on, its number>>
OtRows == OtWorkers \X {1, 2}

\* consolidate_for_output(single_threaded): the worker that gets a row
ConsolidateForOutput(single_threaded, row) == IF single_threaded THEN 0 ELSE row[1]

\* let connector_does_output = !single_threaded || worker_index == 0;
ConnectorDoesOutput(single_threaded, worker_index) == ~single_threaded \/ worker_index = 0

SpawnsIfConnectorDoesOutput(single_threaded, worker_index) ==
    ConnectorDoesOutput(single_threaded, worker_index)

\* output_table spawns the output thread whatever connector_does_output is
SpawnsOutputThread(single_threaded, worker_index) == TRUE

OtInit ==
    /\ otSingle \in BOOLEAN
    /\ otThreads = {}
    /\ otProduced = {}
    /\ otBatch = [w \in OtWorkers |-> {}]
    /\ otChan = [w \in OtWorkers |-> <<>>]
    /\ otWritten = [w \in OtWorkers |-> {}]
    /\ otAssertFailed = FALSE

\* worker w calls output_table; the workers do so in their order
OtOutputTable(w) ==
    /\ w \notin otThreads
    /\ \A v \in OtWorkers : (v \notin otThreads /\ SpawnsOutputThread(otSingle, v)) => w <= v
    /\ SpawnsOutputThread(otSingle, w)
    /\ otThreads' = otThreads \cup {w}
    /\ UNCHANGED <<otSingle, otProduced, otBatch, otChan, otWritten, otAssertFailed>>
    /\ UNCHANGED notOt

\* the graph is built on every worker
OtBuilt == \A w \in OtWorkers : SpawnsOutputThread(otSingle, w) => w \in otThreads

\* a row is produced
OtProduce(row) ==
    /\ OtBuilt
    /\ row \notin otProduced
    /\ otProduced' = otProduced \cup {row}
    /\ otBatch' = [otBatch EXCEPT ![ConsolidateForOutput(otSingle, row)] = @ \cup {row}]
    /\ UNCHANGED <<otSingle, otThreads, otChan, otWritten, otAssertFailed>>
    /\ UNCHANGED notOt

\* inspect_core on worker w gets Ok((time, batches)), with one batch or none
OtInspect(w) ==
    /\ OtBuilt
    /\ ~otAssertFailed
    /\ Len(otChan[w]) < 2
    /\ IF ConnectorDoesOutput(otSingle, w) \/ otBatch[w] = {}
       THEN /\ otChan' = IF otBatch[w] = {} THEN otChan
                         ELSE [otChan EXCEPT ![w] = Append(@, otBatch[w])]
            /\ otBatch' = [otBatch EXCEPT ![w] = {}]
            /\ UNCHANGED otAssertFailed
       ELSE /\ otAssertFailed' = TRUE
            /\ UNCHANGED <<otChan, otBatch>>
    /\ UNCHANGED <<otSingle, otThreads, otProduced, otWritten>>
    /\ UNCHANGED notOt

\* the output thread of worker w receives a batch and writes its rows
OtThreadRecv(w) ==
    /\ w \in otThreads
    /\ otChan[w] # <<>>
    /\ otWritten' = [otWritten EXCEPT ![w] = @ \cup Head(otChan[w])]
    /\ otChan' = [otChan EXCEPT ![w] = Tail(@)]
    /\ UNCHANGED <<otSingle, otThreads, otProduced, otBatch, otAssertFailed>>
    /\ UNCHANGED notOt

OtNext ==
    \/ \E w \in OtWorkers : OtOutputTable(w)
    \/ \E row \in OtRows : OtProduce(row)
    \/ \E w \in OtWorkers : OtInspect(w)
    \/ \E w \in OtWorkers : OtThreadRecv(w)

InitOt ==
    /\ OtInit
    /\ DriverIdle /\ SinkIdle /\ StaticIdle /\ UpdateIdle /\ ExprIdle /\ IterIdle /\ StreamIdle /\ OutIdle /\ GroupIdle /\ IxIdle /\ JoinIdle /\ ForgetIdle /\ SetIdle /\ LoggerIdle /\ FlushIdle /\ BuildIdle /\ DedupIdle /\ MemoIdle /\ SubscribeIdle /\ LoopIdle

SpecOt == InitOt /\ [][OtNext]_vars

\* the rows sent to the output thread of worker w
OtSentTo(w) == UNION {otChan[w][i] : i \in DOMAIN otChan[w]}

\* the assertion never fails, only worker 0 is sent batches when the sink is
\* single-threaded, and every row produced is with the worker
\* consolidate_for_output gives it to: in its batch, sent to its thread, or
\* written by its thread
OtRowsWithTheirThread ==
    /\ ~otAssertFailed
    /\ otSingle => \A w \in OtWorkers \ {0} :
                      otBatch[w] = {} /\ otChan[w] = <<>> /\ otWritten[w] = {}
    /\ \A row \in OtRows :
          LET w == ConsolidateForOutput(otSingle, row)
          IN /\ row \in otProduced <=> row \in otBatch[w] \cup OtSentTo(w) \cup otWritten[w]
             /\ \A v \in OtWorkers \ {w} : row \notin otWritten[v]
    /\ \A w \in OtWorkers : otWritten[w] # {} => w \in otThreads

\* C39 as stated: for a single-threaded sink only worker 0 gets a non-empty
\* batch (the assertion never fails), only worker 0 starts an output thread,
\* and every row of any worker is written by that thread; for another sink
\* every worker has its own output thread.
C39_OnlyWorkerZeroHasThread ==
    /\ OtRowsWithTheirThread
    /\ otSingle => otThreads \subseteq {0}
    /\ (~otSingle /\ OtBuilt) => otThreads = OtWorkers

\* C39 amended: every worker starts an output thread, whatever the sink; for
\* a single-threaded sink only the thread of worker 0 is sent batches and
\* writes rows.
C39_EveryWorkerHasThread ==
    /\ OtRowsWithTheirThread
    /\ OtBuilt => otThreads = OtWorkers
    /\ otProduced # {} => otThreads = OtWorkers

\* the thread of worker 0 has written a row produced on worker 1 for a
\* single-threaded sink, and worker 1 has its output thread too
C39_Witness ==
    /\ otSingle
    /\ <<1, 1>> \in otWritten[0]
    /\ 1 \in otThreads
    /\ ~otAssertFailed

(***************************************************************************)
(* expression_table_non_deterministic over an input that stays a proper    *)
(* set: a key is inserted when it is absent, deleted or replaced when it   *)
(* is present.                                                             *)
(***************************************************************************)
\* the batch keeps the input a proper set
ProperSetChoice(present, choice) ==
    \A k \in ExprKeys :
        /\ choice[k] = "ins" => present[k] = 0
        /\ choice[k] \in {"del", "replace"} => present[k] = 1

\* the numbers of batches after which one more is taken
ExprSetSteps == {0, 1, 2, 3}

ExprSetNext ==
    \E choice \in [ExprKeys -> KeyChanges] :
        ProperSetChoice(exprPresent, choice) /\ ExprBatchWithin(choice, ExprSetSteps)

SpecExprSet == InitExpr /\ [][ExprSetNext]_vars

\* C40: while the input stays a proper set, no assertion on an empty cache
\* slot fails and ExpectedDeletion is not reported, and for an expression
\* that is not append_only the cache holds an entry for a key exactly when
\* the key's row is present.
C40_CacheFollowsPresence ==
    /\ exprError = "none"
    /\ \A k \in ExprKeys : exprPresent[k] \in {0, 1}
    /\ exprMode = "general" =>
          \A k \in ExprKeys : exprCache[k] # NoValue <=> exprPresent[k] = 1

\* a key has been replaced in one batch: its deletion reused the cached
\* value, its insertion was evaluated and cached again
C40_Witness ==
    /\ exprMode = "general"
    /\ exprSteps > 1
    /\ \E i, j \in DOMAIN exprBatch :
          /\ i < j
          /\ exprBatch[i].key = exprBatch[j].key
          /\ exprBatch[i].diff = -1 /\ exprBatch[i].hit
          /\ exprBatch[j].diff = 1 /\ exprBatch[j].computed
          /\ exprCache[exprBatch[j].key] = exprBatch[j].value
          /\ exprPresent[exprBatch[j].key] = 1

====
